---- MODULE Spec2Model ----
(***************************************************************************)
(* Faculty data collection form (src/app.py): the repeating-section row    *)
(* store kept in st.session_state, the stored-PDF cache of                 *)
(* persist_pdf_uploader, the submit handler's validation and its writes to *)
(* the spreadsheet and the drive folder.                                   *)
(*                                                                         *)
(* One action is one script run of the Streamlit app: the widget change or *)
(* button press that triggered it, the handler it reaches, and (after      *)
(* st.rerun()) the render pass that follows.                               *)
(*                                                                         *)
(* Text is a sequence of one-character tokens, so that str.strip() is a    *)
(* real conversion.  In Spec, SpecForm, SpecPair, SpecRows and SpecSchema  *)
(* the uuid4 values are fresh: new_row_id and the submission id draw from  *)
(* counters.  SpecIds draws the row identifiers from a small set, so that  *)
(* a repeated value of new_row_id is a behaviour of the model.             *)
(***************************************************************************)
EXTENDS Integers, Sequences, FiniteSets, TLC

(***************************************************************************)
(* Bounds of the model                                                     *)
(***************************************************************************)
\* sections the user works on in one session (the others stay at "No")
MaxScope == 1
\* rows a section may hold (add_row itself has no upper bound)
MaxRows == 2
\* "Add" presses in one session
MaxAdds == 1
\* presses of Submit in one session
MaxSubmits == 2

(***************************************************************************)
(* Text                                                                    *)
(***************************************************************************)
WS == " "

RECURSIVE lstrip(_)
lstrip(t) == IF t # <<>> /\ Head(t) = WS THEN lstrip(Tail(t)) ELSE t

RECURSIVE rstrip(_)
rstrip(t) ==
    IF t # <<>> /\ t[Len(t)] = WS THEN rstrip(SubSeq(t, 1, Len(t) - 1)) ELSE t

\* a strip that leaves the text as it is
strip_id(t) == t

\* str.strip()
strip(t) == rstrip(lstrip(t))

\* truthiness of a str: non-empty
Truthy(t) == t # <<>>

\* date.isoformat(): a date becomes its text
isoformat(d) == <<d.date>>

DEFAULT_DATE == [date |-> "today"]

\* what the user types into a text_input
TextInputs == {<<>>, <<" ", "a", " ">>}

\* what the user types into the faculty name
NameInputs == {<<" ">>, <<" ", "N">>}

\* the PDFs the user has at hand
Files == {[name |-> "a.pdf", bytes |-> "A"]}

(***************************************************************************)
(* Sections: the session_state list keys, in the order the submit handler  *)
(* validates and persists them                                             *)
(***************************************************************************)
SectionOrder ==
    << "memberships", "fdps", "courses", "student_support", "industry",
       "pubs_jc", "books", "patents_models", "sponsored", "consultancy" >>

Sections == {SectionOrder[i] : i \in 1..Len(SectionOrder)}

\* worksheet of a section
SheetOf(s) ==
    CASE s = "memberships" -> "membership"
      [] s = "fdps" -> "fdp_sttp"
      [] s = "courses" -> "courses"
      [] s = "student_support" -> "student_support"
      [] s = "industry" -> "industry"
      [] s = "pubs_jc" -> "publications_jc"
      [] s = "books" -> "books_chapters"
      [] s = "patents_models" -> "patents_models"
      [] s = "sponsored" -> "sponsored_projects"
      [] s = "consultancy" -> "consultancy_work"

SHEETS ==
    [ faculty |->
        << "submission_id", "submitted_at", "faculty_name", "designation",
           "has_membership", "has_fdp", "has_courses", "has_support",
           "has_industry", "has_academic", "has_books", "has_patents",
           "has_sponsored", "has_consultancy" >>,
      membership |->
        << "submission_id", "body_name", "membership_number", "level",
           "grade_position" >>,
      fdp_sttp |->
        << "submission_id", "program_type", "program_name", "involvement",
           "date", "location", "organised_by" >>,
      courses |->
        << "submission_id", "date", "course_name", "offered_by", "grade" >>,
      student_support |->
        << "submission_id", "project_name", "event_date", "place",
           "website_link" >>,
      industry |->
        << "submission_id", "activity_name", "company_place", "duration",
           "outcomes" >>,
      publications_jc |->
        << "submission_id", "pub_type", "title", "doi", "pub_date",
           "pdf_name", "pdf_file_id", "pdf_link" >>,
      books_chapters |->
        << "submission_id", "item_type", "title", "publisher", "pub_date",
           "pdf_name", "pdf_file_id", "pdf_link" >>,
      patents_models |->
        << "submission_id", "item_type", "title", "item_date", "details",
           "pdf_name", "pdf_file_id", "pdf_link" >>,
      sponsored_projects |->
        << "submission_id", "project_date", "pi_name", "co_pi",
           "dept_sanctioned", "project_title", "funding_agency", "duration",
           "amount_lakhs", "status",
           "sanction_pdf_name", "sanction_pdf_file_id", "sanction_pdf_link",
           "completion_pdf_name", "completion_pdf_file_id",
           "completion_pdf_link" >>,
      consultancy_work |->
        << "submission_id", "project_date", "pi_name", "co_pi",
           "dept_sanctioned", "project_title", "funding_agency", "duration",
           "amount_lakhs", "status",
           "approval_pdf_name", "approval_pdf_file_id", "approval_pdf_link",
           "completion_pdf_name", "completion_pdf_file_id",
           "completion_pdf_link" >> ]

\* SHEETS.items(): the order in which the submit handler ensures worksheets
SheetOrder ==
    << "faculty", "membership", "fdp_sttp", "courses", "student_support",
       "industry", "publications_jc", "books_chapters", "patents_models",
       "sponsored_projects", "consultancy_work" >>

SheetTitles == {SheetOrder[i] : i \in 1..Len(SheetOrder)}

\* uploader widget keys of a section's row, without the row id: the
\* persist_pdf_uploader calls of the section's render loop, in order
Slots(s) ==
    CASE s = "pubs_jc" -> <<"jc_pdf">>
      [] s = "books" -> <<"bk_pdf">>
      [] s = "patents_models" -> <<"pm_pdf">>
      [] s = "sponsored" -> <<"sp_san", "sp_comp">>
      [] s = "consultancy" -> <<"cw_san", "cw_comp">>
      [] OTHER -> <<>>

SlotSet(s) == {Slots(s)[i] : i \in 1..Len(Slots(s))}

AllSlots == UNION {SlotSet(s) : s \in Sections}

\* a remove button that pops nothing
RemovePops_none(s) == {}

\* the stored keys the section's remove button pops
RemovePops(s) ==
    CASE s = "pubs_jc" -> {"jc_pdf"}
      [] s = "books" -> {"bk_pdf"}
      [] s = "patents_models" -> {"pm_pdf"}
      [] s = "sponsored" -> {"sp_san", "sp_comp"}
      [] s = "consultancy" -> {"cw_san", "cw_comp"}
      [] OTHER -> {}

\* sections that end with a confirmation checkbox
ConfirmSections == {"pubs_jc", "sponsored", "consultancy"}

(***************************************************************************)
(* Row factories                                                           *)
(***************************************************************************)
membership_factory(id) ==
    [_id |-> id, body_name |-> <<>>, membership_number |-> <<>>,
     level |-> <<"National">>, grade_position |-> <<>>]

fdp_factory(id) ==
    [_id |-> id, program_type |-> <<"FDP">>, program_name |-> <<>>,
     involvement |-> <<"Attended">>, date |-> <<>>, location |-> <<>>,
     organised_by |-> <<>>]

course_factory(id) ==
    [_id |-> id, date |-> <<>>, course_name |-> <<>>, offered_by |-> <<>>,
     grade |-> <<>>]

support_factory(id) ==
    [_id |-> id, project_name |-> <<>>, event_date |-> <<>>, place |-> <<>>,
     website_link |-> <<>>]

industry_factory(id) ==
    [_id |-> id, activity_name |-> <<>>, company_place |-> <<>>,
     duration |-> <<>>, outcomes |-> <<>>]

jc_pub_factory(id) ==
    [_id |-> id, pub_type |-> <<"Journal">>, title |-> <<>>, doi |-> <<>>,
     pub_date |-> DEFAULT_DATE]

book_factory(id) ==
    [_id |-> id, item_type |-> <<"Book">>, title |-> <<>>, publisher |-> <<>>,
     pub_date |-> DEFAULT_DATE]

patent_factory(id) ==
    [_id |-> id, item_type |-> <<"Indian Patent Granted">>, title |-> <<>>,
     item_date |-> DEFAULT_DATE, details |-> <<>>]

sponsored_factory(id) ==
    [_id |-> id, project_date |-> DEFAULT_DATE, pi_name |-> <<>>,
     co_pi |-> <<>>, dept_sanctioned |-> <<>>, project_title |-> <<>>,
     funding_agency |-> <<>>, duration |-> <<>>, amount_lakhs |-> 0,
     status |-> <<"Ongoing">>]

consultancy_factory(id) ==
    [_id |-> id, project_date |-> DEFAULT_DATE, pi_name |-> <<>>,
     co_pi |-> <<>>, dept_sanctioned |-> <<>>, project_title |-> <<>>,
     funding_agency |-> <<>>, duration |-> <<>>, amount_lakhs |-> 0,
     status |-> <<"Ongoing">>]

\* the factory the app passes with each list key
FactoryOf(s, id) ==
    CASE s = "memberships" -> membership_factory(id)
      [] s = "fdps" -> fdp_factory(id)
      [] s = "courses" -> course_factory(id)
      [] s = "student_support" -> support_factory(id)
      [] s = "industry" -> industry_factory(id)
      [] s = "pubs_jc" -> jc_pub_factory(id)
      [] s = "books" -> book_factory(id)
      [] s = "patents_models" -> patent_factory(id)
      [] s = "sponsored" -> sponsored_factory(id)
      [] s = "consultancy" -> consultancy_factory(id)

\* the row fields the render loop binds to a text_input
TextFields(s) ==
    CASE s = "memberships" -> {"body_name", "membership_number", "grade_position"}
      [] s = "fdps" -> {"program_name", "date", "location", "organised_by"}
      [] s = "courses" -> {"date", "course_name", "offered_by", "grade"}
      [] s = "student_support" ->
            {"project_name", "event_date", "place", "website_link"}
      [] s = "industry" ->
            {"activity_name", "company_place", "duration", "outcomes"}
      [] s = "pubs_jc" -> {"title", "doi"}
      [] s = "books" -> {"title", "publisher"}
      [] s = "patents_models" -> {"title", "details"}
      [] s = "sponsored" ->
            {"pi_name", "co_pi", "dept_sanctioned", "project_title",
             "funding_agency", "duration"}
      [] s = "consultancy" ->
            {"pi_name", "co_pi", "dept_sanctioned", "project_title",
             "funding_agency", "duration"}

\* what the user types into the text_inputs of one row
RowInputs(s) == {[f \in TextFields(s) |-> v] : v \in TextInputs}

(***************************************************************************)
(* State                                                                   *)
(***************************************************************************)
VARIABLES
    scope,      \* the sections the user works on in this session
    name,       \* the faculty_name text_input
    has,        \* the Yes/No radio of every section
    lists,      \* st.session_state[<list key>]: the rows of every section
    confirm,    \* the pub_confirm / proj_confirm / consult_confirm checkboxes
    uploaded,   \* what each rendered file_uploader widget holds
    stored,     \* st.session_state["<widget_key>__stored"]
    nextRowId,  \* the next fresh value of new_row_id()
    issued,     \* per section, the values new_row_id() returned for its rows
    sheets,     \* the spreadsheet: worksheet title -> rows (row 1 = header)
    drive,      \* the files created in the drive folder, in creation order
    nextSid,    \* the next fresh submission id
    outcome,    \* what the run shows after Submit was pressed
    calls       \* the Google API calls of the run, in order

vars == << scope, name, has, lists, confirm, uploaded, stored, nextRowId, issued,
           sheets, drive, nextSid, outcome, calls >>

form == << scope, name, has, lists, confirm, uploaded, stored, nextRowId, issued >>
store == << sheets, drive, nextSid >>

NoOutcome == [kind |-> "none"]

\* Python's None
None == [none |-> TRUE]

\* dict.get(key): the value, or None
Get(f, k) == IF k \in DOMAIN f THEN f[k] ELSE None

\* one statement after another: v is what the first leaves, evaluated once,
\* and F what the rest makes of it
Then(v, F(_)) == CHOOSE r \in {F(x) : x \in {v}} : TRUE

\* restriction of a function to a subset of its domain
Restrict(f, S) == [x \in S \cap DOMAIN f |-> f[x]]

\* dict.pop(key, None) for a set of keys
Pop(f, S) == [x \in DOMAIN f \ S |-> f[x]]

(***************************************************************************)
(* Row store helpers                                                       *)
(***************************************************************************)
\* an ensure_list_state without the `key not in st.session_state` test
ensure_list_state_reset(ss, key, row) == (key :> <<row>>) @@ ss

\* ensure_list_state(key, factory_fn); row is what factory_fn() would return
ensure_list_state(ss, key, row) ==
    IF key \notin DOMAIN ss THEN ss @@ (key :> <<row>>) ELSE ss

\* an add_row that puts the new row first
add_row_front(ss, key, row) == [ss EXCEPT ![key] = <<row>> \o @]

\* add_row(key, factory_fn)
add_row(ss, key, row) == [ss EXCEPT ![key] = Append(@, row)]

\* a remove without the len(rows) <= 1 return
remove_row_by_id_nofloor(ss, key, row_id) ==
    LET rows == IF key \in DOMAIN ss THEN ss[key] ELSE <<>>
    IN  (key :> SelectSeq(rows, LAMBDA r : r._id # row_id)) @@ ss

\* remove_row_by_id(key, row_id)
remove_row_by_id(ss, key, row_id) ==
    LET rows == IF key \in DOMAIN ss THEN ss[key] ELSE <<>>
    IN  IF Len(rows) <= 1
        THEN ss
        ELSE (key :> SelectSeq(rows, LAMBDA r : r._id # row_id)) @@ ss

\* "Initialize repeatables": the ten ensure_list_state calls at the top of
\* the script; the result is the lists and the next unused row id
RECURSIVE InitRepeatables(_, _, _)
InitRepeatables(ss, next, i) ==
    IF i > Len(SectionOrder)
    THEN [lists |-> ss, next |-> next]
    ELSE LET key == SectionOrder[i]
         IN  IF key \in DOMAIN ss
             THEN InitRepeatables(ss, next, i + 1)
             ELSE InitRepeatables(
                      ensure_list_state(ss, key, FactoryOf(key, next)),
                      next + 1, i + 1)

\* the ids of the rows of a list, in list order
IdsOf(ss, key) == [i \in 1..Len(ss[key]) |-> ss[key][i]._id]

RowIds(ss, key) == {ss[key][i]._id : i \in 1..Len(ss[key])}

(***************************************************************************)
(* Stored uploads                                                          *)
(***************************************************************************)
\* the uploader widgets the render pass reaches: <<widget prefix, row id>>
Rendered(h, ss) ==
    UNION {SlotSet(s) \X RowIds(ss, s) :
              s \in {t \in Sections : t \in DOMAIN ss /\ h[t] = "Yes"}}

\* a variant that keeps what is stored already
persist_pdf_uploader_keep(st, up, key) ==
    IF key \in DOMAIN up /\ key \notin DOMAIN st THEN (key :> up[key]) @@ st ELSE st

\* a variant that takes a second sight of the widget's file for a clearing
persist_pdf_uploader_flip(st, up, key) ==
    IF key \in DOMAIN up
    THEN IF key \in DOMAIN st THEN Pop(st, {key}) ELSE (key :> up[key]) @@ st
    ELSE st

\* persist_pdf_uploader(label, widget_key): the stored dict after the call
\* (the Clear button inside it is the action PressClear)
persist_pdf_uploader(st, up, key) ==
    IF key \in DOMAIN up THEN (key :> up[key]) @@ st ELSE st

\* every persist_pdf_uploader call of one render pass
RECURSIVE RenderUploaders(_, _, _)
RenderUploaders(st, up, keys) ==
    IF keys = {}
    THEN st
    ELSE LET k == CHOOSE x \in keys : TRUE
         IN  RenderUploaders(persist_pdf_uploader(st, up, k), up, keys \ {k})

(***************************************************************************)
(* The form: one action per widget interaction                             *)
(***************************************************************************)
Ready == DOMAIN lists = Sections

\* the spreadsheet as provisioned: every worksheet with its header row
Provisioned == [t \in SheetTitles |-> <<SHEETS[t]>>]

\* nothing was written to the store yet.  The model follows a session up to
\* its first write; after it the user only presses Submit again
Untouched == sheets = Provisioned /\ drive = <<>>

Init ==
    /\ scope \in {S \in SUBSET Sections : Cardinality(S) \in 1..MaxScope}
    /\ name = <<>>
    /\ has = [s \in Sections |-> "No"]
    /\ lists = <<>>
    /\ confirm = [s \in ConfirmSections |-> FALSE]
    /\ uploaded = <<>>
    /\ stored = <<>>
    /\ nextRowId = 1
    /\ issued = [s \in Sections |-> <<>>]
    /\ sheets = Provisioned
    /\ drive = <<>>
    /\ nextSid = 1
    /\ outcome = NoOutcome
    /\ calls = <<>>

\* a run in which Submit is not pressed shows no submit message and makes no
\* Google API call
NoSubmit ==
    /\ outcome' = NoOutcome
    /\ calls' = <<>>
    /\ UNCHANGED store

\* the render pass that ends every run: each rendered uploader stores what
\* its widget holds
AfterRun(st) == stored' = RenderUploaders(st, uploaded', Rendered(has', lists'))

\* the first run of the script in a session
FirstRun ==
    /\ DOMAIN lists = {}
    /\ LET r == InitRepeatables(lists, nextRowId, 1)
       IN  /\ lists' = r.lists
           /\ nextRowId' = r.next
           /\ issued' = [s \in Sections |-> issued[s] \o IdsOf(r.lists, s)]
    /\ UNCHANGED << scope, name, has, confirm, uploaded >>
    /\ AfterRun(stored)
    /\ NoSubmit

\* the user types the faculty name
SetName(v) ==
    /\ Ready
    /\ Untouched
    /\ v # name
    /\ name' = v
    /\ UNCHANGED << scope, has, lists, confirm, uploaded, nextRowId, issued >>
    /\ AfterRun(stored)
    /\ NoSubmit

\* the user flips a section's Yes/No radio.  At "No" the section's widgets
\* are not rendered and the framework drops their state: a file_uploader
\* comes back empty, a checkbox comes back at value=False
SetRadio(s, v) ==
    /\ Ready
    /\ Untouched
    /\ s \in scope
    /\ v # has[s]
    /\ has' = [has EXCEPT ![s] = v]
    /\ uploaded' = Restrict(uploaded, Rendered(has', lists))
    /\ confirm' = IF v = "No" /\ s \in ConfirmSections
                  THEN [confirm EXCEPT ![s] = FALSE] ELSE confirm
    /\ UNCHANGED << scope, name, lists, nextRowId, issued >>
    /\ AfterRun(stored)
    /\ NoSubmit

\* the user retypes the text_inputs of a row: the render loop assigns every
\* widget value to its row field
EditRow(s, i, vals) ==
    /\ Ready
    /\ Untouched
    /\ has[s] = "Yes"
    /\ i \in 1..Len(lists[s])
    /\ lists' = [lists EXCEPT ![s][i] =
                    [f \in DOMAIN @ |-> IF f \in DOMAIN vals THEN vals[f] ELSE @[f]]]
    /\ lists' # lists
    /\ UNCHANGED << scope, name, has, confirm, uploaded, nextRowId, issued >>
    /\ AfterRun(stored)
    /\ NoSubmit

\* the section's "Add" button
PressAdd(s) ==
    /\ Ready
    /\ Untouched
    /\ has[s] = "Yes"
    /\ Len(lists[s]) < MaxRows
    /\ nextRowId <= Len(SectionOrder) + MaxAdds
    /\ lists' = add_row(lists, s, FactoryOf(s, nextRowId))
    /\ nextRowId' = nextRowId + 1
    /\ issued' = [issued EXCEPT ![s] = Append(@, nextRowId)]
    /\ UNCHANGED << scope, name, has, confirm, uploaded >>
    /\ AfterRun(stored)
    /\ NoSubmit

\* the remove button of row i of a section: pops the row's stored uploads,
\* then remove_row_by_id, then st.rerun()
PressRemove(s, i) ==
    /\ Ready
    /\ Untouched
    /\ has[s] = "Yes"
    /\ i \in 1..Len(lists[s])
    /\ LET rid == lists[s][i]._id
       IN  /\ lists' = remove_row_by_id(lists, s, rid)
           /\ uploaded' = Restrict(uploaded, Rendered(has, lists'))
           /\ UNCHANGED << scope, name, has, confirm, nextRowId, issued >>
           /\ AfterRun(Pop(stored, RemovePops(s) \X {rid}))
    /\ NoSubmit

\* the user picks a PDF in a row's uploader
Upload(s, sl, i, f) ==
    /\ Ready
    /\ Untouched
    /\ has[s] = "Yes"
    /\ sl \in SlotSet(s)
    /\ i \in 1..Len(lists[s])
    /\ LET key == <<sl, lists[s][i]._id>>
       IN  /\ Get(uploaded, key) # f
           /\ uploaded' = (key :> f) @@ uploaded
    /\ UNCHANGED << scope, name, has, lists, confirm, nextRowId, issued >>
    /\ AfterRun(stored)
    /\ NoSubmit

\* the user takes the PDF out of the uploader widget
WidgetRemove(s, sl, i) ==
    /\ Ready
    /\ Untouched
    /\ has[s] = "Yes"
    /\ sl \in SlotSet(s)
    /\ i \in 1..Len(lists[s])
    /\ LET key == <<sl, lists[s][i]._id>>
       IN  /\ key \in DOMAIN uploaded
           /\ uploaded' = Pop(uploaded, {key})
    /\ UNCHANGED << scope, name, has, lists, confirm, nextRowId, issued >>
    /\ AfterRun(stored)
    /\ NoSubmit

\* the "Clear" button persist_pdf_uploader shows next to a stored file
PressClear(s, sl, i) ==
    /\ Ready
    /\ Untouched
    /\ has[s] = "Yes"
    /\ sl \in SlotSet(s)
    /\ i \in 1..Len(lists[s])
    /\ LET key == <<sl, lists[s][i]._id>>
       IN  /\ key \in DOMAIN stored
           /\ key \notin DOMAIN uploaded
           /\ UNCHANGED << scope, name, has, lists, confirm, uploaded, nextRowId, issued >>
           /\ AfterRun(Pop(stored, {key}))
    /\ NoSubmit

\* the user ticks or unticks a section's confirmation checkbox
SetConfirm(s, b) ==
    /\ Ready
    /\ Untouched
    /\ s \in ConfirmSections
    /\ has[s] = "Yes"
    /\ b # confirm[s]
    /\ confirm' = [confirm EXCEPT ![s] = b]
    /\ UNCHANGED << scope, name, has, lists, uploaded, nextRowId, issued >>
    /\ AfterRun(stored)
    /\ NoSubmit

(***************************************************************************)
(* Submit: validation                                                      *)
(***************************************************************************)
\* a test that is content with one filled field
AllFilled_some(row, fields) == \E f \in fields : Truthy(strip(row[f]))

\* all([...]) over stripped texts
AllFilled(row, fields) == \A f \in fields : Truthy(strip(row[f]))

\* the errors the validation loop of section s appends for row number idx
RowErrors(s, idx, row, st) ==
    CASE s = "memberships" ->
            IF ~AllFilled(row, {"body_name", "membership_number", "level",
                                "grade_position"})
            THEN << <<"Membership #", idx, ": all fields are required.">> >>
            ELSE <<>>
      [] s = "fdps" ->
            IF ~AllFilled(row, {"program_type", "program_name", "involvement",
                                "date", "location", "organised_by"})
            THEN << <<"Resource person entry #", idx, ": all fields are required.">> >>
            ELSE <<>>
      [] s = "courses" ->
            IF ~AllFilled(row, {"date", "course_name", "offered_by", "grade"})
            THEN << <<"Course #", idx, ": all fields are required.">> >>
            ELSE <<>>
      [] s = "student_support" ->
            IF ~AllFilled(row, {"project_name", "event_date", "place"})
            THEN << <<"Student support entry #", idx,
                      ": project name, date, place are required.">> >>
            ELSE <<>>
      [] s = "industry" ->
            IF ~AllFilled(row, {"activity_name", "company_place", "duration",
                                "outcomes"})
            THEN << <<"Industry entry #", idx, ": all fields are required.">> >>
            ELSE <<>>
      [] s = "pubs_jc" ->
            (IF ~Truthy(strip(row.pub_type)) \/ ~Truthy(strip(row.title))
                    \/ ~Truthy(strip(row.doi))
             THEN << <<"Publication #", idx, ": Type, Title, DOI are required.">> >>
             ELSE <<>>)
            \o (IF row.pub_date = None
                THEN << <<"Publication #", idx, ": Publication date is required.">> >>
                ELSE <<>>)
            \o (IF Get(st, <<"jc_pdf", row._id>>) = None
                THEN << <<"Publication #", idx, ": PDF upload is required.">> >>
                ELSE <<>>)
      [] s = "books" ->
            IF ~Truthy(strip(row.item_type)) \/ ~Truthy(strip(row.title))
            THEN << <<"Book/Chapter #", idx, ": Type and Title are required.">> >>
            ELSE <<>>
      [] s = "patents_models" ->
            IF ~Truthy(strip(row.item_type)) \/ ~Truthy(strip(row.title))
                    \/ row.item_date = None
            THEN << <<"Patents/Models/Prototypes item #", idx,
                      ": Type, Title/Name, Date are required.">> >>
            ELSE <<>>
      [] s = "sponsored" ->
            (IF ~AllFilled(row, {"pi_name", "dept_sanctioned", "project_title",
                                 "funding_agency", "duration", "status"})
                    \/ row.project_date = None
             THEN << <<"Sponsored project #", idx,
                       ": Date + required fields are mandatory.">> >>
             ELSE <<>>)
            \o (IF Get(st, <<"sp_san", row._id>>) = None
                THEN << <<"Sponsored project #", idx,
                          ": Sanction/Approval PDF is required.">> >>
                ELSE <<>>)
      [] s = "consultancy" ->
            IF ~AllFilled(row, {"pi_name", "dept_sanctioned", "project_title",
                                "funding_agency", "duration", "status"})
                    \/ row.project_date = None
            THEN << <<"Consultancy work #", idx,
                      ": Date + required fields are mandatory.">> >>
            ELSE <<>>

\* for idx, row in enumerate(st.session_state[s], start=1)
RECURSIVE SectionErrors(_, _, _, _)
SectionErrors(s, rows, idx, st) ==
    IF idx > Len(rows)
    THEN <<>>
    ELSE RowErrors(s, idx, rows[idx], st) \o SectionErrors(s, rows, idx + 1, st)

\* the validation blocks of the sections, each behind its radio
RECURSIVE ActiveErrors(_, _, _, _)
ActiveErrors(h, ss, st, i) ==
    IF i > Len(SectionOrder)
    THEN <<>>
    ELSE LET s == SectionOrder[i]
         IN  (IF h[s] = "Yes" THEN SectionErrors(s, ss[s], 1, st) ELSE <<>>)
                 \o ActiveErrors(h, ss, st, i + 1)

\* pub_confirm / proj_confirm / consult_confirm as the handler sees them:
\* True unless the section is at "Yes", where it is the checkbox
ConfirmValue(h, cf, s) == IF h[s] = "Yes" THEN cf[s] ELSE TRUE

\* a validation that asks for the three confirmations whatever the radios say
Validate_unguarded(nm, h, ss, cf, st) ==
    (IF ~Truthy(strip(nm)) THEN << <<"Name of the Faculty is required.">> >> ELSE <<>>)
    \o (IF ~cf["pubs_jc"]
        THEN << <<"Please confirm Journal/Conference publication PDFs matching.">> >> ELSE <<>>)
    \o (IF ~cf["sponsored"]
        THEN << <<"Please confirm Sponsored project documents matching.">> >> ELSE <<>>)
    \o (IF ~cf["consultancy"]
        THEN << <<"Please confirm Consultancy documents matching.">> >> ELSE <<>>)
    \o ActiveErrors(h, ss, st, 1)

\* the errors list of the submit handler
Validate(nm, h, ss, cf, st) ==
    (IF ~Truthy(strip(nm)) THEN << <<"Name of the Faculty is required.">> >> ELSE <<>>)
    \o (IF h["pubs_jc"] = "Yes" /\ ~ConfirmValue(h, cf, "pubs_jc")
        THEN << <<"Please confirm Journal/Conference publication PDFs matching.">> >>
        ELSE <<>>)
    \o (IF h["sponsored"] = "Yes" /\ ~ConfirmValue(h, cf, "sponsored")
        THEN << <<"Please confirm Sponsored project documents matching.">> >>
        ELSE <<>>)
    \o (IF h["consultancy"] = "Yes" /\ ~ConfirmValue(h, cf, "consultancy")
        THEN << <<"Please confirm Consultancy documents matching.">> >>
        ELSE <<>>)
    \o ActiveErrors(h, ss, st, 1)

(***************************************************************************)
(* Submit: the writes to the spreadsheet and the drive folder              *)
(*                                                                         *)
(* The handler is run on a record st: the spreadsheet and the drive as the *)
(* calls so far left them, the log of the calls, the exception raised (or  *)
(* None) and the handler's locals (has_id: submission_id is assigned).  budget is the number of Google API     *)
(* calls that succeed before one fails (negative: none fails).  A failed   *)
(* call changes nothing.  Reads of the spreadsheet are not logged.         *)
(***************************************************************************)
designation == "AP"

\* ADMIN_EMAIL = get_secret("app.admin_email", ""), at its default
ADMIN_EMAIL == <<>>

Running(st) == st.exc = None

\* a call whose failure goes unnoticed
ApiCall_silent(st, op, line, log, sh, dr) ==
    IF st.exc # [none |-> TRUE] \/ st.budget = 0
    THEN [st EXCEPT !.budget = IF @ = 0 THEN -1 ELSE @]
    ELSE [st EXCEPT !.budget = @ - 1, !.calls = @ \o log,
                    !.sheets = sh, !.drive = dr]

\* one Google API call made at a line of app.py: its log entry and the new
\* spreadsheet and drive when it succeeds
ApiCall(st, op, line, log, sh, dr) ==
    IF ~Running(st)
    THEN st
    ELSE IF st.budget = 0
         THEN [st EXCEPT !.exc = [op |-> op, line |-> line], !.budget = -1]
         ELSE [st EXCEPT !.budget = @ - 1, !.calls = @ \o log,
                         !.sheets = sh, !.drive = dr]

\* an update that writes nothing
UpdateA1_none(sheet, headers) == sheet

\* ws.update("A1", [headers]): the cells of row 1 under the headers
UpdateA1(sheet, headers) ==
    IF Len(sheet) = 0
    THEN <<headers>>
    ELSE [sheet EXCEPT ![1] =
            headers \o (IF Len(@) > Len(headers)
                        THEN SubSeq(@, Len(headers) + 1, Len(@)) ELSE <<>>)]

\* ensure_worksheet(sh, title, headers)
ensure_worksheet(st, title, headers) ==
    LET found == title \in DOMAIN st.sheets
    IN  Then(ApiCall(st, "sh.worksheet", 74, <<>>, st.sheets, st.drive),
        LAMBDA s1 :
        Then(IF found THEN s1
             ELSE ApiCall(s1, "sh.add_worksheet", 76,
                          << [op |-> "add_worksheet", ws |-> title] >>,
                          (title :> <<>>) @@ s1.sheets, s1.drive),
        LAMBDA s2 :
        Then(IF found THEN s2
             ELSE ApiCall(s2, "ws.append_row", 77,
                          << [op |-> "append_row", ws |-> title] >>,
                          [s2.sheets EXCEPT ![title] = Append(@, headers)],
                          s2.drive),
        LAMBDA s3 :
        \* try: first_row = ws.row_values(1)  except Exception: first_row = []
        Then(ApiCall(s3, "ws.row_values", 81, <<>>, s3.sheets, s3.drive),
        LAMBDA r4 :
        Then(IF Running(s3) THEN [r4 EXCEPT !.exc = None] ELSE s3,
        LAMBDA s4 :
            LET first_row == IF Running(r4) /\ Len(s4.sheets[title]) > 0
                             THEN s4.sheets[title][1] ELSE <<>>
            IN  IF Running(s4) /\ (first_row = <<>> \/ first_row # headers)
                THEN Then(ApiCall(s4, "ws.resize", 86, <<>>, s4.sheets, s4.drive),
                     LAMBDA s5 :
                        ApiCall(s5, "ws.update", 87,
                                << [op |-> "update", ws |-> title] >>,
                                [s5.sheets EXCEPT ![title] = UpdateA1(@, headers)],
                                s5.drive))
                ELSE s4)))))

\* for title, headers in SHEETS.items(): ensure_worksheet(sh, title, headers)
RECURSIVE EnsureAll(_, _)
EnsureAll(st, i) ==
    IF i > Len(SheetOrder)
    THEN st
    ELSE Then(ensure_worksheet(st, SheetOrder[i], SHEETS[SheetOrder[i]]),
              LAMBDA nxt : EnsureAll(nxt, i + 1))

\* the reference of a slot without an upload
BlankUp == [name |-> "", file_id |-> "", web_view_link |-> ""]

\* an upload that creates no file and returns the blank reference
upload_pdf_to_drive_blank(st, file_dict, name_prefix, line) ==
    [st EXCEPT !.up = BlankUp]

\* an upload that returns a reference without creating the file
upload_pdf_to_drive_unsaved(st, file_dict, name_prefix, line) ==
    IF file_dict = None
    THEN [st EXCEPT !.exc = [op |-> "AttributeError", line |-> line]]
    ELSE [st EXCEPT !.up = [file_id |-> Len(st.drive) + 1,
                            web_view_link |-> <<"link", Len(st.drive) + 1>>,
                            name |-> name_prefix \o <<file_dict.name>>]]

\* upload_pdf_to_drive(drive_service, file_dict, folder_id, name_prefix),
\* called at a line of the submit handler; the returned dict is st.up
upload_pdf_to_drive(st, file_dict, name_prefix, line) ==
    IF ~Running(st)
    THEN st
    ELSE IF file_dict = None
         THEN [st EXCEPT !.exc = [op |-> "AttributeError", line |-> line]]
         ELSE LET file_id == Len(st.drive) + 1
                  safe_name == name_prefix \o <<file_dict.name>>
              IN  Then(ApiCall(st, "files.create", line,
                               << [op |-> "files.create", name |-> safe_name] >>,
                               st.sheets,
                               Append(st.drive,
                                      [id |-> file_id, name |-> safe_name,
                                       bytes |-> file_dict.bytes])),
                  LAMBDA done :
                  \* if share_to_email: try: permissions().create(...)
                  \* except Exception: pass
                  Then(IF Truthy(ADMIN_EMAIL) /\ Running(done)
                       THEN [ApiCall(done, "permissions.create", 125,
                                     << [op |-> "permissions.create",
                                         fileId |-> file_id] >>,
                                     done.sheets, done.drive)
                                EXCEPT !.exc = None]
                       ELSE done,
                  LAMBDA shared :
                      IF Running(shared)
                      THEN [shared EXCEPT !.up = [file_id |-> file_id,
                                                  web_view_link |-> <<"link", file_id>>,
                                                  name |-> safe_name]]
                      ELSE shared))

\* how the persistence loop of a section treats an uploader: the tag of the
\* name prefix, the line of the upload call, and whether the upload is made
\* without looking at the stored file
SlotUpload(sl) ==
    CASE sl = "jc_pdf" -> [tag |-> "PUB", line |-> 852, always |-> TRUE]
      [] sl = "bk_pdf" -> [tag |-> "BOOK", line |-> 878, always |-> FALSE]
      [] sl = "pm_pdf" -> [tag |-> "PM", line |-> 904, always |-> FALSE]
      [] sl = "sp_san" -> [tag |-> "SP_SAN", line |-> 930, always |-> TRUE]
      [] sl = "sp_comp" -> [tag |-> "SP_COMP", line |-> 939, always |-> FALSE]
      [] sl = "cw_san" -> [tag |-> "CW_APP", line |-> 974, always |-> FALSE]
      [] sl = "cw_comp" -> [tag |-> "CW_COMP", line |-> 984, always |-> FALSE]

\* the uploads of one row, slot by slot; st.ups maps each slot to its reference
RECURSIVE UploadSlots(_, _, _, _, _, _)
UploadSlots(st, s, sid, row, cache, j) ==
    IF j > Len(Slots(s)) \/ ~Running(st)
    THEN st
    ELSE LET sl == Slots(s)[j]
             pdf_dict == Get(cache, <<sl, row._id>>)
             u == SlotUpload(sl)
         IN  Then(IF u.always \/ pdf_dict # None
                  THEN upload_pdf_to_drive(st, pdf_dict, <<sid, u.tag>>, u.line)
                  ELSE [st EXCEPT !.up = BlankUp],
             LAMBDA done :
             Then([done EXCEPT !.ups = (sl :> done.up) @@ @],
             LAMBDA nxt : UploadSlots(nxt, s, sid, row, cache, j + 1)))

\* a record under an id of its own
RowRecord_other(s, sid, row, ups) == << sid + 1 >>

\* the list the persistence loop of section s appends to rows
RowRecord(s, sid, row, ups) ==
    CASE s = "memberships" ->
            << sid, strip(row.body_name), strip(row.membership_number),
               row.level, strip(row.grade_position) >>
      [] s = "fdps" ->
            << sid, strip(row.program_type), strip(row.program_name),
               strip(row.involvement), strip(row.date), strip(row.location),
               strip(row.organised_by) >>
      [] s = "courses" ->
            << sid, strip(row.date), strip(row.course_name),
               strip(row.offered_by), strip(row.grade) >>
      [] s = "student_support" ->
            << sid, strip(row.project_name), strip(row.event_date),
               strip(row.place), strip(row.website_link) >>
      [] s = "industry" ->
            << sid, strip(row.activity_name), strip(row.company_place),
               strip(row.duration), strip(row.outcomes) >>
      [] s = "pubs_jc" ->
            << sid, row.pub_type, strip(row.title), strip(row.doi),
               isoformat(row.pub_date),
               ups["jc_pdf"].name, ups["jc_pdf"].file_id,
               ups["jc_pdf"].web_view_link >>
      [] s = "books" ->
            << sid, row.item_type, strip(row.title), strip(row.publisher),
               IF row.pub_date # None THEN isoformat(row.pub_date) ELSE <<>>,
               ups["bk_pdf"].name, ups["bk_pdf"].file_id,
               ups["bk_pdf"].web_view_link >>
      [] s = "patents_models" ->
            << sid, strip(row.item_type), strip(row.title),
               isoformat(row.item_date), strip(row.details),
               ups["pm_pdf"].name, ups["pm_pdf"].file_id,
               ups["pm_pdf"].web_view_link >>
      [] s = "sponsored" ->
            << sid, isoformat(row.project_date), strip(row.pi_name),
               strip(row.co_pi), strip(row.dept_sanctioned),
               strip(row.project_title), strip(row.funding_agency),
               strip(row.duration), row.amount_lakhs, strip(row.status),
               ups["sp_san"].name, ups["sp_san"].file_id,
               ups["sp_san"].web_view_link,
               ups["sp_comp"].name, ups["sp_comp"].file_id,
               ups["sp_comp"].web_view_link >>
      [] s = "consultancy" ->
            << sid, isoformat(row.project_date), strip(row.pi_name),
               strip(row.co_pi), strip(row.dept_sanctioned),
               strip(row.project_title), strip(row.funding_agency),
               strip(row.duration), row.amount_lakhs, strip(row.status),
               ups["cw_san"].name, ups["cw_san"].file_id,
               ups["cw_san"].web_view_link,
               ups["cw_comp"].name, ups["cw_comp"].file_id,
               ups["cw_comp"].web_view_link >>

\* the line of the section's append_rows call
AppendRowsLine(s) ==
    CASE s = "memberships" -> 804
      [] s = "fdps" -> 820
      [] s = "courses" -> 828
      [] s = "student_support" -> 836
      [] s = "industry" -> 844
      [] s = "pubs_jc" -> 868
      [] s = "books" -> 894
      [] s = "patents_models" -> 920
      [] s = "sponsored" -> 962
      [] s = "consultancy" -> 1007

\* one pass of the section's "for row in st.session_state[s]" loop: the
\* row's uploads, then rows.append([...])
PersistRow(st, s, sid, row, cache) ==
    Then(UploadSlots([st EXCEPT !.ups = <<>>], s, sid, row, cache, 1),
    LAMBDA up :
        IF Running(up)
        THEN [up EXCEPT !.rows = Append(@, RowRecord(s, sid, row, up.ups))]
        ELSE up)

\* a loop that stops after the first row
PersistRows_first(st, s, sid, rows, cache, i) ==
    IF rows = <<>> \/ ~Running(st)
    THEN st
    ELSE PersistRow(st, s, sid, rows[1], cache)

RECURSIVE PersistRows(_, _, _, _, _, _)
PersistRows(st, s, sid, rows, cache, i) ==
    IF i > Len(rows) \/ ~Running(st)
    THEN st
    ELSE Then(PersistRow(st, s, sid, rows[i], cache),
              LAMBDA nxt : PersistRows(nxt, s, sid, rows, cache, i + 1))

\* a block that does not look at the radio
PersistSection_always(st, s, sid, h, ss, cache) ==
    IF ~Running(st)
    THEN st
    ELSE Then(PersistRows([st EXCEPT !.rows = <<>>], s, sid, ss[s], cache, 1),
         LAMBDA looped :
             IF looped.rows # <<>>
             THEN ApiCall(looped, "ws.append_rows", AppendRowsLine(s),
                          << [op |-> "append_rows", ws |-> SheetOf(s),
                              n |-> Len(looped.rows)] >>,
                          [looped.sheets EXCEPT ![SheetOf(s)] = @ \o looped.rows],
                          looped.drive)
             ELSE looped)

\* a block that appends the rows gathered before an upload failed
PersistSection_flush(st, s, sid, h, ss, cache) ==
    IF h[s] # "Yes" \/ ~Running(st)
    THEN st
    ELSE Then(PersistRows([st EXCEPT !.rows = <<>>], s, sid, ss[s], cache, 1),
         LAMBDA looped :
             IF looped.rows # <<>>
             THEN [looped EXCEPT
                     !.calls = @ \o << [op |-> "append_rows", ws |-> SheetOf(s),
                                        n |-> Len(looped.rows)] >>,
                     !.sheets[SheetOf(s)] = @ \o looped.rows]
             ELSE looped)

\* the persistence block of section s: nothing at "No"; at "Yes" the loop
\* over the rows, then one append_rows when rows is not empty
PersistSection(st, s, sid, h, ss, cache) ==
    IF h[s] # "Yes" \/ ~Running(st)
    THEN st
    ELSE Then(PersistRows([st EXCEPT !.rows = <<>>], s, sid, ss[s], cache, 1),
         LAMBDA looped :
             IF looped.rows # <<>>
             THEN ApiCall(looped, "ws.append_rows", AppendRowsLine(s),
                          << [op |-> "append_rows", ws |-> SheetOf(s),
                              n |-> Len(looped.rows)] >>,
                          [looped.sheets EXCEPT ![SheetOf(s)] = @ \o looped.rows],
                          looped.drive)
             ELSE looped)

RECURSIVE PersistSections(_, _, _, _, _, _)
PersistSections(st, i, sid, h, ss, cache) ==
    IF i > Len(SectionOrder)
    THEN st
    ELSE Then(PersistSection(st, SectionOrder[i], sid, h, ss, cache),
              LAMBDA nxt : PersistSections(nxt, i + 1, sid, h, ss, cache))

\* the row appended to the faculty worksheet
FacultyRow(sid, nm, h) ==
    << sid, "now", strip(nm), designation >>
        \o [i \in 1..Len(SectionOrder) |-> h[SectionOrder[i]]]

\* the try block of the submit handler, with uuid4 giving sid
Persist(nm, h, ss, cache, sh, dr, sid, budget) ==
    Then([sheets |-> sh, drive |-> dr, calls |-> <<>>, budget |-> budget,
          exc |-> None, up |-> BlankUp, ups |-> <<>>, rows |-> <<>>,
          has_id |-> FALSE],
    LAMBDA st0 :
    Then(ApiCall(st0, "get_google_clients", 779,
                 << [op |-> "get_google_clients"] >>, sh, dr),
    LAMBDA st1 :
    Then(EnsureAll(st1, 1),
    LAMBDA st2 :
    Then(IF Running(st2) THEN [st2 EXCEPT !.has_id = TRUE] ELSE st2,
    LAMBDA st3 :
    Then(ApiCall(st3, "ws.append_row", 790,
                 << [op |-> "append_row", ws |-> "faculty"] >>,
                 [st3.sheets EXCEPT !["faculty"] =
                      Append(@, FacultyRow(sid, nm, h))],
                 st3.drive),
    LAMBDA st4 : PersistSections(st4, 1, sid, h, ss, cache))))))

(***************************************************************************)
(* Submit                                                                  *)
(***************************************************************************)
\* a test of the errors list that never finds it filled
HasErrors_never(errors) == FALSE

\* if errors:
HasErrors(errors) == errors # <<>>

\* the Google API calls the try block makes when none fails
CallCount(nm, h, ss, cache, sh, dr, sid) ==
    -1 - Persist(nm, h, ss, cache, sh, dr, sid, -1).budget

\* the Submit button: the render pass of the run, the validation and, when
\* the errors list is empty, the try block, in which any one Google API call
\* may fail: failAt is the number of calls that succeed before it (-1: none
\* fails)
Submit ==
    /\ Ready
    /\ nextSid <= MaxSubmits
    /\ UNCHANGED << scope, name, has, lists, confirm, uploaded, nextRowId, issued >>
    /\ AfterRun(stored)
    /\ LET errors == Validate(name, has, lists, confirm, stored')
       IN  IF HasErrors(errors)
           THEN /\ outcome' = [kind |-> "error", errors |-> errors]
                /\ calls' = <<>>
                /\ UNCHANGED store
           ELSE \E failAt \in -1..(CallCount(name, has, lists, stored', sheets,
                                             drive, nextSid) - 1) :
                  \E st \in {Persist(name, has, lists, stored', sheets, drive,
                                     nextSid, failAt)} :
                      /\ sheets' = st.sheets
                      /\ drive' = st.drive
                      /\ calls' = st.calls
                      /\ nextSid' = IF st.has_id THEN nextSid + 1 ELSE nextSid
                      /\ outcome' =
                           IF Running(st)
                           THEN [kind |-> "success", submission_id |-> nextSid]
                           ELSE [kind |-> "exception", exc |-> st.exc]

FormNext ==
    \/ FirstRun
    \/ \E v \in NameInputs : SetName(v)
    \/ \E s \in Sections, v \in {"No", "Yes"} : SetRadio(s, v)
    \/ \E s \in Sections, i \in 1..MaxRows : \E vals \in RowInputs(s) : EditRow(s, i, vals)
    \/ \E s \in Sections : PressAdd(s)
    \/ \E s \in Sections, i \in 1..MaxRows : PressRemove(s, i)
    \/ \E s \in Sections, sl \in AllSlots, i \in 1..MaxRows, f \in Files :
            Upload(s, sl, i, f)
    \/ \E s \in Sections, sl \in AllSlots, i \in 1..MaxRows : WidgetRemove(s, sl, i)
    \/ \E s \in Sections, sl \in AllSlots, i \in 1..MaxRows : PressClear(s, sl, i)
    \/ \E s \in ConfirmSections, b \in BOOLEAN : SetConfirm(s, b)

SpecForm == Init /\ [][FormNext]_vars

Next ==
    \/ FormNext
    \/ Untouched /\ Submit

Spec == Init /\ [][Next]_vars

(***************************************************************************)
(* Submits of a filled form with two sections                              *)
(*                                                                         *)
(* The form is drawn as an earlier editing session left it: the ten lists  *)
(* initialised, rows added to two sections A and B, every text_input of    *)
(* their rows typed, a PDF stored for the uploaders the validation demands *)
(* and, per section, for all or none of the others, the name typed and the *)
(* confirmations ticked.  From there the user only presses Submit.         *)
(***************************************************************************)
TheFile == CHOOSE f \in Files : TRUE

Typed == <<" ", "a", " ">>

\* what is typed into the text_inputs of row i: the rows differ
TypedIn(i) == IF i = 1 THEN Typed ELSE <<"b">>

\* n - 1 presses of the section's Add button
RECURSIVE AddRows(_, _, _, _)
AddRows(ss, s, next, n) ==
    IF n <= 1
    THEN ss
    ELSE AddRows(add_row(ss, s, FactoryOf(s, next)), s, next + 1, n - 1)

\* every text_input of every row of section s typed
TypeAll(ss, s) ==
    [ss EXCEPT ![s] =
        [i \in 1..Len(@) |->
            [f \in DOMAIN @[i] |->
                IF f \in TextFields(s) THEN TypedIn(i) ELSE @[i][f]]]]

\* the uploaders of section s that hold a PDF: those the handler uploads
\* without a test, and the others when opt
Filled(ss, s, opt) ==
    {k \in SlotSet(s) \X RowIds(ss, s) : SlotUpload(k[1]).always \/ opt}

\* position of a list key in the order the script renders the sections
Pos(s) == CHOOSE i \in 1..Len(SectionOrder) : SectionOrder[i] = s

\* the sections drawn in pairs: one without an uploader, one with a required
\* uploader, the two with a required and an optional one
PairSections == {"memberships", "pubs_jc", "sponsored", "consultancy"}

InitPair ==
    \E A \in PairSections, B \in PairSections :
    \E n \in 1..MaxRows, optA \in BOOLEAN, optB \in BOOLEAN :
        LET first == InitRepeatables(<<>>, 1, 1)
            withA == AddRows(first.lists, A, first.next, n)
            withB == AddRows(withA, B, first.next + n - 1, n)
            ss == TypeAll(TypeAll(withB, A), B)
            keys == Filled(ss, A, optA) \cup Filled(ss, B, optB)
        IN  /\ Pos(A) < Pos(B)
            /\ scope = {}
            /\ name = <<" ", "N">>
            /\ has = [s \in Sections |-> IF s \in {A, B} THEN "Yes" ELSE "No"]
            /\ lists = ss
            /\ confirm = [s \in ConfirmSections |-> has[s] = "Yes"]
            /\ uploaded = <<>>
            /\ stored = [k \in keys |-> TheFile]
            /\ nextRowId = first.next + 2 * n - 2
            /\ issued = [s \in Sections |-> IdsOf(ss, s)]
            /\ sheets = Provisioned
            /\ drive = <<>>
            /\ nextSid = 1
            /\ outcome = NoOutcome
            /\ calls = <<>>

NextPair == Submit

SpecPair == InitPair /\ [][NextPair]_vars

\* the same forms with the Add and the remove buttons pressed before Submit
NextRows ==
    \/ \E s \in Sections : PressAdd(s)
    \/ \E s \in Sections, i \in 1..MaxRows : PressRemove(s, i)
    \/ Untouched /\ Submit

SpecRows == InitPair /\ [][NextRows]_vars

(***************************************************************************)
(* Submits to a spreadsheet with a worksheet of another layout             *)
(*                                                                         *)
(* The spreadsheet is shared with its operators and outlives the versions  *)
(* of the app: one worksheet is drawn with a header row that is not the    *)
(* one of SHEETS (a column missing, renamed or added) and a record under   *)
(* it.  The form has a name and every section at "No".                     *)
(***************************************************************************)
HeaderKinds == {"short", "renamed", "long"}

\* a header row that differs from SHEETS[t]
OtherHeader(t, kind) ==
    CASE kind = "short" -> SubSeq(SHEETS[t], 1, Len(SHEETS[t]) - 1)
      [] kind = "renamed" -> [SHEETS[t] EXCEPT ![Len(SHEETS[t])] = "legacy"]
      [] kind = "long" -> Append(SHEETS[t], "legacy")

\* a record written under that header by submission 0
OtherRecord(t, kind) ==
    [j \in 1..Len(OtherHeader(t, kind)) |-> IF j = 1 THEN 0 ELSE <<"x">>]

InitSchema ==
    \E t \in SheetTitles, kind \in HeaderKinds :
        LET first == InitRepeatables(<<>>, 1, 1)
        IN  /\ scope = {}
            /\ name = <<" ", "N">>
            /\ has = [s \in Sections |-> "No"]
            /\ lists = first.lists
            /\ confirm = [s \in ConfirmSections |-> FALSE]
            /\ uploaded = <<>>
            /\ stored = <<>>
            /\ nextRowId = first.next
            /\ issued = [s \in Sections |-> IdsOf(first.lists, s)]
            /\ sheets = [Provisioned EXCEPT
                            ![t] = << OtherHeader(t, kind), OtherRecord(t, kind) >>]
            /\ drive = <<>>
            /\ nextSid = 1
            /\ outcome = NoOutcome
            /\ calls = <<>>

NextSchema == Submit

SpecSchema == InitSchema /\ [][NextSchema]_vars

(***************************************************************************)
(* Submits to a spreadsheet that is not fully provisioned                  *)
(*                                                                         *)
(* One worksheet is drawn missing, blank, with its header row alone or     *)
(* with its header row and a record of an earlier submission; the others   *)
(* have their header row.  The form has a name and every section at "No",  *)
(* so that a submit is ensure_worksheet for every title and the header     *)
(* record.                                                                 *)
(***************************************************************************)
SheetKinds == {"missing", "blank", "header", "records"}

\* a record of submission 0 under the expected header
EarlierRecord(t) == [j \in 1..Len(SHEETS[t]) |-> IF j = 1 THEN 0 ELSE <<"x">>]

\* the spreadsheet with worksheet t of the given kind
SheetsWith(t, kind) ==
    CASE kind = "missing" -> [k \in SheetTitles \ {t} |-> <<SHEETS[k]>>]
      [] kind = "blank" -> [Provisioned EXCEPT ![t] = <<>>]
      [] kind = "header" -> Provisioned
      [] kind = "records" -> [Provisioned EXCEPT ![t] = <<SHEETS[t], EarlierRecord(t)>>]

InitEnsure ==
    \E t \in SheetTitles, kind \in SheetKinds :
        LET first == InitRepeatables(<<>>, 1, 1)
        IN  /\ scope = {}
            /\ name = <<" ", "N">>
            /\ has = [s \in Sections |-> "No"]
            /\ lists = first.lists
            /\ confirm = [s \in ConfirmSections |-> FALSE]
            /\ uploaded = <<>>
            /\ stored = <<>>
            /\ nextRowId = first.next
            /\ issued = [s \in Sections |-> IdsOf(first.lists, s)]
            /\ sheets = SheetsWith(t, kind)
            /\ drive = <<>>
            /\ nextSid = 1
            /\ outcome = NoOutcome
            /\ calls = <<>>

NextEnsure == Submit

SpecEnsure == InitEnsure /\ [][NextEnsure]_vars

(***************************************************************************)
(* The uploaders of one section with two different PDFs                    *)
(*                                                                         *)
(* One section with uploaders is at "Yes"; the user adds a row, puts one   *)
(* of two PDFs into an uploader, takes it out again and presses Clear.     *)
(***************************************************************************)
TwoFiles == Files \cup {[name |-> "b.pdf", bytes |-> "B"]}

\* the sections whose rows have a file_uploader
UploadSections == {s \in Sections : SlotSet(s) # {}}

InitCache ==
    \E s \in UploadSections :
        LET first == InitRepeatables(<<>>, 1, 1)
        IN  /\ scope = {s}
            /\ name = <<>>
            /\ has = [k \in Sections |-> IF k = s THEN "Yes" ELSE "No"]
            /\ lists = first.lists
            /\ confirm = [k \in ConfirmSections |-> FALSE]
            /\ uploaded = <<>>
            /\ stored = <<>>
            /\ nextRowId = first.next
            /\ issued = [k \in Sections |-> IdsOf(first.lists, k)]
            /\ sheets = Provisioned
            /\ drive = <<>>
            /\ nextSid = 1
            /\ outcome = NoOutcome
            /\ calls = <<>>

NextCache ==
    \/ \E s \in Sections : PressAdd(s)
    \/ \E s \in Sections, sl \in AllSlots, i \in 1..MaxRows, f \in TwoFiles :
            Upload(s, sl, i, f)
    \/ \E s \in Sections, sl \in AllSlots, i \in 1..MaxRows : WidgetRemove(s, sl, i)
    \/ \E s \in Sections, sl \in AllSlots, i \in 1..MaxRows : PressClear(s, sl, i)

SpecCache == InitCache /\ [][NextCache]_vars

(***************************************************************************)
(* The row store with the identifiers drawn                                *)
(*                                                                         *)
(* new_row_id() returns the first ten hex digits of a random UUID, one of  *)
(* 16^10 values; nothing in the code compares it with the identifiers      *)
(* already in use.  Spec, SpecForm and SpecPair follow the sessions in     *)
(* which every value is new (nextRowId).  SpecIds draws each value from    *)
(* MaxIds values instead and applies initialize, add and remove to the     *)
(* sections in scope.                                                      *)
(***************************************************************************)
\* values new_row_id may return in SpecIds
MaxIds == 2
\* identifiers handed out to one section in SpecIds
MaxDraws == 3

\* the values uuid.uuid4().hex[:10] can have
new_row_id == 1..MaxIds

\* the ten ensure_list_state calls, each with a factory row of a drawn id
InitializeIds ==
    /\ DOMAIN lists = {}
    /\ \E ids \in [Sections -> new_row_id] :
          /\ lists' = [s \in Sections |->
                          ensure_list_state(lists, s, FactoryOf(s, ids[s]))[s]]
          /\ issued' = [s \in Sections |-> Append(issued[s], ids[s])]
    /\ UNCHANGED << scope, name, has, confirm, uploaded, stored, nextRowId >>
    /\ UNCHANGED << store, outcome, calls >>

\* add_row(s, factory) with a drawn id
AddId(s) ==
    /\ Ready
    /\ s \in scope
    /\ Len(lists[s]) < MaxRows
    /\ Len(issued[s]) < MaxDraws
    /\ \E id \in new_row_id :
          /\ lists' = add_row(lists, s, FactoryOf(s, id))
          /\ issued' = [issued EXCEPT ![s] = Append(@, id)]
    /\ UNCHANGED << scope, name, has, confirm, uploaded, stored, nextRowId >>
    /\ UNCHANGED << store, outcome, calls >>

\* remove_row_by_id(s, id of row i)
RemoveId(s, i) ==
    /\ Ready
    /\ s \in scope
    /\ i \in 1..Len(lists[s])
    /\ lists' = remove_row_by_id(lists, s, lists[s][i]._id)
    /\ UNCHANGED << scope, name, has, confirm, uploaded, stored, nextRowId, issued >>
    /\ UNCHANGED << store, outcome, calls >>

NextIds ==
    \/ InitializeIds
    \/ \E s \in Sections : AddId(s)
    \/ \E s \in Sections, i \in 1..MaxRows : RemoveId(s, i)

SpecIds == Init /\ [][NextIds]_vars

(***************************************************************************)
(* Admin tab                                                               *)
(*                                                                         *)
(* The admin tab reads every worksheet with get_all_values and shows the   *)
(* rows under the header; it writes nothing, so it is an operator on the   *)
(* spreadsheet and not an action.                                          *)
(***************************************************************************)
\* the columns that hold a number: float(sp.get("amount_lakhs") or 0.0)
NumberCols(t) ==
    IF t \in {"sponsored_projects", "consultancy_work"} THEN {9} ELSE {}

\* the text a number cell is returned as
CellText(n) == <<"str", n>>

\* ws.get_all_values(): the rows of the worksheet, every cell as text
get_all_values(sh, t) ==
    [i \in 1..Len(sh[t]) |->
        [j \in 1..Len(sh[t][i]) |->
            IF i > 1 /\ j \in NumberCols(t) THEN CellText(sh[t][i][j])
            ELSE sh[t][i][j]]]

\* dfs[title]: values[1:] under the columns values[0]
LoadTable(sh, t) ==
    LET values == get_all_values(sh, t)
    IN  IF values = <<>> THEN <<>> ELSE SubSeq(values, 2, Len(values))

\* the fields of a section's row in the order of the columns of its child
\* record, after the submission id
FieldCols(s) ==
    CASE s = "memberships" ->
            <<"body_name", "membership_number", "level", "grade_position">>
      [] s = "fdps" ->
            <<"program_type", "program_name", "involvement", "date",
              "location", "organised_by">>
      [] s = "courses" -> <<"date", "course_name", "offered_by", "grade">>
      [] s = "student_support" ->
            <<"project_name", "event_date", "place", "website_link">>
      [] s = "industry" ->
            <<"activity_name", "company_place", "duration", "outcomes">>
      [] s = "pubs_jc" -> <<"pub_type", "title", "doi", "pub_date">>
      [] s = "books" -> <<"item_type", "title", "publisher", "pub_date">>
      [] s = "patents_models" -> <<"item_type", "title", "item_date", "details">>
      [] s \in {"sponsored", "consultancy"} ->
            <<"project_date", "pi_name", "co_pi", "dept_sanctioned",
              "project_title", "funding_agency", "duration", "amount_lakhs",
              "status">>

(***************************************************************************)
(* What the persisted store holds                                          *)
(***************************************************************************)
\* the data rows of worksheet t of spreadsheet sh that carry submission id sid
RowsOf(sh, t, sid) ==
    SelectSeq(SubSeq(sh[t], 2, Len(sh[t])), LAMBDA r : r[1] = sid)

\* the submission ids of the header records of spreadsheet sh
Sids(sh) == {sh["faculty"][i][1] : i \in 2..Len(sh["faculty"])}

\* the rows a step appended to worksheet t
Appended(t) == SubSeq(sheets'[t], Len(sheets[t]) + 1, Len(sheets'[t]))

\* the column of a child record that holds the name of the slot's reference;
\* the file id and the link follow it
RefCol(sl) == IF sl \in {"jc_pdf", "bk_pdf", "pm_pdf"} THEN 6
              ELSE IF sl \in {"sp_san", "cw_san"} THEN 11 ELSE 14

\* the files of drive dr uploaded for section s under submission id sid
FilesOf(dr, s, sid) ==
    {i \in 1..Len(dr) :
        \E sl \in SlotSet(s) :
            /\ dr[i].name[1] = sid
            /\ dr[i].name[2] = SlotUpload(sl).tag}

\* the stored PDFs of the rows of section s
StoredOf(s) == {k \in DOMAIN stored : k[1] \in SlotSet(s) /\ k[2] \in RowIds(lists, s)}

\* the section whose persistence loop makes the upload call at a line
SectionOfLine(line) ==
    CHOOSE s \in Sections : \E sl \in SlotSet(s) : SlotUpload(sl).line = line

\* the step is a run of the submit handler
SubmitRan == outcome' # NoOutcome

(***************************************************************************)
(* C1                                                                      *)
(***************************************************************************)
\* C1: when Submit is pressed and the validation yields at least one error,
\* no Google API call is made and the spreadsheet and the drive are left as
\* they were: nothing is ensured, written or uploaded.
C1_NoPersistenceOnErrors ==
    [][(SubmitRan /\ Validate(name', has', lists', confirm', stored') # <<>>)
        => /\ calls' = <<>>
           /\ sheets' = sheets
           /\ drive' = drive
           /\ nextSid' = nextSid]_vars

\* a submit was refused with errors while a section was at "Yes"
C1_Witness ==
    /\ outcome.kind = "error"
    /\ \E s \in Sections : has[s] = "Yes"

(***************************************************************************)
(* C2                                                                      *)
(***************************************************************************)
\* C2: every initialised section holds at least one row, and
\* remove_row_by_id on a section with exactly one row leaves the lists
\* unchanged whatever row id is passed.
C2_AtLeastOneRow ==
    \A s \in DOMAIN lists :
        /\ Len(lists[s]) >= 1
        /\ Len(lists[s]) = 1 =>
                \A id \in 0..nextRowId : remove_row_by_id(lists, s, id) = lists

\* a section is back at one row after an add and a remove: its only row is
\* the added one
C2_Witness ==
    \E s \in DOMAIN lists :
        /\ Len(lists[s]) = 1
        /\ lists[s][1]._id > Len(SectionOrder)

(***************************************************************************)
(* C3                                                                      *)
(***************************************************************************)
\* C3: the session state holds no "<slot>_<rowId>__stored" key for a row
\* that is not in the list of the slot's section.
C3_NoStaleCache ==
    \A k \in DOMAIN stored :
        \E s \in DOMAIN lists : k[1] \in SlotSet(s) /\ k[2] \in RowIds(lists, s)

\* the first row of an attachment section was removed while the section's
\* remaining row holds a stored PDF
C3_Witness ==
    \E s \in DOMAIN lists :
        /\ SlotSet(s) # {}
        /\ Len(lists[s]) = 1
        /\ lists[s][1]._id > Len(SectionOrder)
        /\ StoredOf(s) # {}

(***************************************************************************)
(* C4                                                                      *)
(***************************************************************************)
\* the lists with the rows of the sections at "No" taken away
ActiveOnly(h, ss) == [s \in DOMAIN ss |-> IF h[s] = "Yes" THEN ss[s] ELSE <<>>]

\* C4: a submit treats a section at "No" as if it had no rows: its rows and
\* stored PDFs add no validation error, its worksheet gets no row and no
\* file is uploaded for it.
C4_NoSectionExcluded ==
    [][SubmitRan =>
        /\ outcome'.kind = "error" =>
              outcome'.errors = Validate(name, has, ActiveOnly(has, lists),
                                         confirm, stored')
        /\ \A s \in Sections :
              has[s] = "No" =>
                  /\ sheets'[SheetOf(s)] = sheets[SheetOf(s)]
                  /\ \A sid \in 1..MaxSubmits :
                        FilesOf(drive', s, sid) = FilesOf(drive, s, sid)]_vars

\* a submit went through while a section at "No" still held a typed row and
\* a blank one
C4_Witness ==
    /\ outcome.kind = "success"
    /\ \E s \in Sections :
          /\ has[s] = "No"
          /\ Len(lists[s]) = 2
          /\ \E f \in TextFields(s) :
                lists[s][1][f] # <<>> /\ lists[s][2][f] = <<>>

(***************************************************************************)
(* C5                                                                      *)
(***************************************************************************)
\* C5: a submit that fails validation leaves the lists of rows and the
\* stored PDFs exactly as they were.
C5_FailedSubmitKeepsForm ==
    [][(SubmitRan /\ outcome'.kind = "error")
        => /\ lists' = lists
           /\ stored' = stored
           /\ uploaded' = uploaded]_vars

\* a submit was refused while a row held a stored PDF
C5_Witness ==
    /\ outcome.kind = "error"
    /\ stored # <<>>

(***************************************************************************)
(* C6                                                                      *)
(***************************************************************************)
\* the reference columns of child record rec for slot sl are those of the
\* upload of file under submission id sid: a file of the drive with the
\* prefixed name and the bytes of the stored PDF, its id and its link
RefersTo(rec, sl, sid, file) ==
    LET c == RefCol(sl)
    IN  \E i \in 1..Len(drive) :
            /\ rec[c + 1] = i
            /\ rec[c] = drive[i].name
            /\ rec[c + 2] = <<"link", i>>
            /\ drive[i].name = <<sid, SlotUpload(sl).tag, file.name>>
            /\ drive[i].bytes = file.bytes

\* in the log of the last submit every files.create of section s comes
\* before the section's append_rows, and by then there is one per stored PDF
UploadsFirst(s) ==
    \A j \in 1..Len(calls) :
        (calls[j].op = "append_rows" /\ calls[j].ws = SheetOf(s)) =>
            /\ Cardinality({i \in 1..(j - 1) :
                    /\ calls[i].op = "files.create"
                    /\ \E sl \in SlotSet(s) : calls[i].name[2] = SlotUpload(sl).tag})
                  = Cardinality(StoredOf(s))
            /\ \A i \in (j + 1)..Len(calls) :
                    calls[i].op = "files.create" =>
                        \A sl \in SlotSet(s) : calls[i].name[2] # SlotUpload(sl).tag

\* C6: every child record in a worksheet refers, for each uploader of its
\* row that holds a PDF, to a file that is in the drive, with the name, file
\* id and link the upload returned, and is blank for the others; the uploads
\* of a section are made before its rows are appended.
C6_UploadBeforeRecord ==
    \A s \in Sections :
        /\ UploadsFirst(s)
        /\ \A sid \in Sids(sheets) :
              LET recs == RowsOf(sheets, SheetOf(s), sid)
              IN  \A k \in 1..Len(recs) : \A sl \in SlotSet(s) :
                    LET file == Get(stored, <<sl, lists[s][k]._id>>)
                        c == RefCol(sl)
                    IN  IF file = None
                        THEN << recs[k][c], recs[k][c + 1], recs[k][c + 2] >>
                                = << "", "", "" >>
                        ELSE RefersTo(recs[k], sl, sid, file)

\* a section with two uploaders per row has its two rows in the worksheet
C6_Witness ==
    \E s \in Sections :
        /\ Cardinality(SlotSet(s)) = 2
        /\ Cardinality(StoredOf(s)) = 4
        /\ \E sid \in Sids(sheets) : Len(RowsOf(sheets, SheetOf(s), sid)) = 2

(***************************************************************************)
(* C7                                                                      *)
(***************************************************************************)
\* everything the submit with id sid has to write is in the store
AllWritten(sid) ==
    /\ sid \in Sids(sheets)
    /\ \A s \in Sections :
          has[s] = "Yes" =>
              /\ Len(RowsOf(sheets, SheetOf(s), sid)) = Len(lists[s])
              /\ Cardinality(FilesOf(drive, s, sid)) = Cardinality(StoredOf(s))

\* C7: when the success message with a submission id is shown, the header
\* record, the rows of every section at "Yes" and the upload of every stored
\* PDF of those rows are in the store.
C7_SuccessMeansWritten ==
    outcome.kind = "success" =>
        AllWritten(outcome.submission_id)

\* a submit of two sections with uploads succeeded
C7_Witness ==
    /\ outcome.kind = "success"
    /\ Cardinality({s \in Sections : has[s] = "Yes" /\ StoredOf(s) # {}}) = 2

(***************************************************************************)
(* C8                                                                      *)
(***************************************************************************)
\* the submit that ran failed in an upload of section s
UploadFailedIn(s) ==
    /\ outcome'.kind = "exception"
    /\ outcome'.exc.op = "files.create"
    /\ s = SectionOfLine(outcome'.exc.line)

\* C8: when an upload fails in section s, the worksheet of s and of every
\* later section gets no row and not every PDF of s is uploaded, while the
\* header record and the rows of the sections at "Yes" before s are in the
\* store; and every header record a submit writes carries an id that no
\* earlier header record has.
C8_UploadFailureAbortsSection ==
    [][/\ \A s \in Sections :
            UploadFailedIn(s) =>
                /\ \A i \in Pos(s)..Len(SectionOrder) :
                      sheets'[SheetOf(SectionOrder[i])] = sheets[SheetOf(SectionOrder[i])]
                /\ Cardinality(FilesOf(drive', s, nextSid)) < Cardinality(StoredOf(s))
                /\ nextSid \in Sids(sheets')
                /\ \A i \in 1..(Pos(s) - 1) :
                      LET e == SectionOrder[i]
                      IN  has[e] = "Yes" =>
                            Len(RowsOf(sheets', SheetOf(e), nextSid)) = Len(lists[e])
       /\ \A i \in 1..Len(sheets["faculty"]) : sheets'["faculty"][i] = sheets["faculty"][i]
       /\ \A r \in {Appended("faculty")[i] : i \in 1..Len(Appended("faculty"))} :
            r[1] \notin Sids(sheets)]_vars

\* a first submit failed in an upload of the later section after the rows
\* of the earlier one were appended, and the retry went through: two header
\* records, the earlier section's rows under both ids, the later one's
\* under the second only
C8_Witness ==
    /\ outcome.kind = "success"
    /\ Sids(sheets) = {1, 2}
    /\ \E e \in Sections, s \in Sections :
          /\ Pos(e) < Pos(s)
          /\ Len(RowsOf(sheets, SheetOf(e), 1)) = Len(lists[e])
          /\ Len(RowsOf(sheets, SheetOf(e), 2)) = Len(lists[e])
          /\ RowsOf(sheets, SheetOf(s), 1) = <<>>
          /\ Len(RowsOf(sheets, SheetOf(s), 2)) = Len(lists[s])
          /\ Cardinality(FilesOf(drive, s, 1)) < Cardinality(StoredOf(s))

(***************************************************************************)
(* C9                                                                      *)
(***************************************************************************)
\* the last submit failed in the first upload of row #2 of section s after
\* every upload of row #1 was made
Row2UploadFailed(s) ==
    /\ outcome.kind = "exception"
    /\ outcome.exc.op = "files.create"
    /\ s = SectionOfLine(outcome.exc.line)
    /\ Len(lists[s]) >= 2
    /\ \E k \in StoredOf(s) : k[2] = lists[s][1]._id
    /\ Cardinality(FilesOf(drive, s, nextSid - 1))
          = Cardinality({k \in StoredOf(s) : k[2] = lists[s][1]._id})

\* what the except clause shows when the call that fails is the one after
\* budget successful calls, with uuid4 giving sid
ShownWhen(sid, budget) ==
    Persist(name, has, lists, stored, sheets, drive, sid, budget)

\* C9: when the upload for row #2 of a section fails after row #1's, the
\* error shown is one that only a failure in row #2 under this submission id
\* shows, and a record of the section under this id holds row #1's reference.
C9_ErrorNamesRowAndKeepsReference ==
    \A s \in Sections :
        Row2UploadFailed(s) =>
            /\ \A b \in 0..(CallCount(name, has, lists, stored, sheets, drive,
                                      nextSid) - 1) :
                  ShownWhen(nextSid - 1, b).exc = outcome.exc =>
                      Len(ShownWhen(nextSid - 1, b).rows) = 1
            /\ \A sid \in 1..MaxSubmits, b \in 0..(CallCount(name, has, lists,
                                      stored, sheets, drive, nextSid) - 1) :
                  ShownWhen(sid, b).exc = outcome.exc => sid = nextSid - 1
            /\ Len(RowsOf(sheets, SheetOf(s), nextSid - 1)) >= 1

\* the upload for row #2 of a section failed after row #1's was made
C9_Witness == \E s \in Sections : Row2UploadFailed(s)

(***************************************************************************)
(* C10                                                                     *)
(***************************************************************************)
\* C10: every data row of a section worksheet carries the submission id of a
\* header record of the faculty worksheet, and the rows one submit appends
\* to the section worksheets all carry the id of the header record that
\* submit appended.
C10_ChildRowsHaveHeader ==
    /\ [](\A s \in Sections : \A i \in 2..Len(sheets[SheetOf(s)]) :
                sheets[SheetOf(s)][i][1] \in Sids(sheets))
    /\ [][\A s \in Sections : \A i \in 1..Len(Appended(SheetOf(s))) :
            /\ Len(Appended("faculty")) = 1
            /\ Appended(SheetOf(s))[i][1] = Appended("faculty")[1][1]]_vars

\* a failed submit left the rows of one section under its header record,
\* and the retry added rows of two sections under a second one
C10_Witness ==
    /\ Sids(sheets) = {1, 2}
    /\ \E e \in Sections, s \in Sections :
          /\ e # s
          /\ RowsOf(sheets, SheetOf(e), 1) # <<>>
          /\ RowsOf(sheets, SheetOf(s), 1) = <<>>
          /\ RowsOf(sheets, SheetOf(e), 2) # <<>>
          /\ RowsOf(sheets, SheetOf(s), 2) # <<>>

(***************************************************************************)
(* C11                                                                     *)
(***************************************************************************)
\* the append_rows calls the last submit made on the worksheet of section s
AppendRowsOf(s) ==
    {j \in 1..Len(calls) : calls[j].op = "append_rows" /\ calls[j].ws = SheetOf(s)}

\* C11: a form with two sections at "Yes", everything required filled, is
\* never refused by the validation and never fails but in a Google API call;
\* when the submit succeeds the id shown is that of the header record just
\* written, and append_rows was called once for each section at "Yes", with
\* as many rows as its list holds, and for no section at "No".
C11_OneAppendRowsPerActiveSection ==
    /\ outcome.kind # "error"
    /\ outcome.kind = "exception" => outcome.exc.op # "AttributeError"
    /\ outcome.kind = "success" =>
          /\ outcome.submission_id = nextSid - 1
          /\ outcome.submission_id \in Sids(sheets)
          /\ \A s \in Sections :
                IF has[s] = "Yes"
                THEN /\ Cardinality(AppendRowsOf(s)) = 1
                     /\ \A j \in AppendRowsOf(s) : calls[j].n = Len(lists[s])
                ELSE AppendRowsOf(s) = {}

\* a submit of two sections with two rows each succeeded
C11_Witness ==
    /\ outcome.kind = "success"
    /\ Cardinality({s \in Sections : has[s] = "Yes" /\ Len(lists[s]) = 2}) = 2

(***************************************************************************)
(* C12                                                                     *)
(***************************************************************************)
\* a text with nothing but whitespace in it
Blank(t) == \A i \in 1..Len(t) : t[i] = WS

\* C12: a submit with a blank faculty name and every section at "No" shows
\* exactly one error, the one asking for the name, and makes no Google API
\* call: the spreadsheet and the drive stay as they were.
C12_BlankNameAlone ==
    [][(SubmitRan /\ Blank(name) /\ \A s \in Sections : has[s] = "No")
        => /\ outcome' = [kind |-> "error",
                          errors |-> << <<"Name of the Faculty is required.">> >>]
           /\ calls' = <<>>
           /\ sheets' = sheets
           /\ drive' = drive]_vars

\* a submit with the name " " and no section at "Yes" was refused, with
\* stale rows left in a section
C12_Witness ==
    /\ outcome.kind = "error"
    /\ name = <<WS>>
    /\ \A s \in Sections : has[s] = "No"
    /\ \E s \in Sections : Len(lists[s]) = 2


(***************************************************************************)
(* C13                                                                     *)
(***************************************************************************)
\* the publications section is the only one at "Yes" and holds one row with
\* type, title, DOI and date filled in
OnePublication ==
    /\ \A s \in Sections : has[s] = "Yes" <=> s = "pubs_jc"
    /\ Len(lists["pubs_jc"]) = 1
    /\ ~Blank(lists["pubs_jc"][1].pub_type)
    /\ ~Blank(lists["pubs_jc"][1].title)
    /\ ~Blank(lists["pubs_jc"][1].doi)
    /\ lists["pubs_jc"][1].pub_date # None

\* the submit run finds no PDF stored for that row
PdfMissing == Get(stored', <<"jc_pdf", lists["pubs_jc"][1]._id>>) = None

\* the only error shown is the PDF error of publication #1
OnlyPdfError ==
    /\ outcome'.kind = "error"
    /\ outcome'.errors = << <<"Publication #", 1, ": PDF upload is required.">> >>
    /\ calls' = <<>>
    /\ sheets' = sheets
    /\ drive' = drive

\* C13: with the publications section the only one at "Yes", one row whose
\* fields are filled and whose PDF is missing, a non-blank faculty name and
\* the publications confirmation ticked, a submit shows exactly one error,
\* "Publication #1: PDF upload is required.", and writes nothing.
C13_OnePdfError ==
    [][(SubmitRan /\ OnePublication /\ PdfMissing /\ ~Blank(name)
            /\ confirm["pubs_jc"])
        => OnlyPdfError]_vars

\* C13 as stated, with nothing said about the name and the confirmation:
\* exactly one error, which is about publication #1, and nothing written.
C13_AsStated ==
    [][(SubmitRan /\ OnePublication /\ PdfMissing)
        => /\ outcome'.kind = "error"
           /\ Len(outcome'.errors) = 1
           /\ Len(outcome'.errors[1]) = 3
           /\ outcome'.errors[1][1] = "Publication #"
           /\ outcome'.errors[1][2] = 1
           /\ calls' = <<>>]_vars

\* the submit of one filled publication without its PDF was refused with
\* the one error
C13_Witness ==
    /\ OnePublication
    /\ ~Blank(name)
    /\ confirm["pubs_jc"]
    /\ outcome.kind = "error"
    /\ outcome.errors = << <<"Publication #", 1, ": PDF upload is required.">> >>


(***************************************************************************)
(* C14                                                                     *)
(***************************************************************************)
\* no value is in a sequence twice
Distinct(seq) == \A i, j \in 1..Len(seq) : i # j => seq[i] # seq[j]

\* C14: in every section the identifiers of the rows that ever existed are
\* pairwise distinct: the current rows have distinct identifiers and no row
\* was created with an identifier handed out before in its section.
C14_IdsNeverShared ==
    \A s \in Sections :
        /\ DOMAIN lists = Sections => Distinct(IdsOf(lists, s))
        /\ Distinct(issued[s])

\* an added row got the identifier of the row next to it
C14_Witness ==
    /\ DOMAIN lists = Sections
    /\ \E s \in Sections :
          /\ Len(lists[s]) = 2
          /\ lists[s][1]._id = lists[s][2]._id

\* a removed row's identifier is back in the section
C14_ReusedAfterRemove ==
    /\ DOMAIN lists = Sections
    /\ \E s \in Sections :
          /\ Len(issued[s]) = 3
          /\ Distinct(IdsOf(lists, s))
          /\ issued[s][3] \in RowIds(lists, s)
          /\ issued[s][3] \in {issued[s][1], issued[s][2]}


(***************************************************************************)
(* C15                                                                     *)
(***************************************************************************)
\* the values of a sequence
Range(seq) == {seq[i] : i \in 1..Len(seq)}

\* C15: ensure_list_state on a section without a list gives it exactly one
\* row, the factory's default row with an identifier not handed out before,
\* and leaves the other lists alone; on a section that has a list it
\* changes nothing, and so does every repetition.
C15_EnsureListState ==
    [][/\ \A s \in Sections \ DOMAIN lists :
             LET row == FactoryOf(s, nextRowId)
                 once == ensure_list_state(lists, s, row)
             IN  /\ DOMAIN once = DOMAIN lists \cup {s}
                 /\ once[s] = <<row>>
                 /\ row._id \notin Range(issued[s])
                 /\ \A k \in DOMAIN lists : once[k] = lists[k]
                 /\ ensure_list_state(once, s, FactoryOf(s, nextRowId + 1)) = once
       /\ DOMAIN lists = {} =>
             \A s \in Sections :
                 /\ Len(lists'[s]) = 1
                 /\ lists'[s][1] = FactoryOf(s, lists'[s][1]._id)
                 /\ issued'[s] = << lists'[s][1]._id >>
       /\ \A s \in DOMAIN lists' :
             ensure_list_state(lists', s, FactoryOf(s, nextRowId')) = lists']_vars

\* the lists exist, one of them with two rows, one of them typed into
C15_Witness ==
    /\ DOMAIN lists = Sections
    /\ \E s \in Sections :
          /\ Len(lists[s]) = 2
          /\ lists[s][1] # FactoryOf(s, lists[s][1]._id)


(***************************************************************************)
(* C16                                                                     *)
(***************************************************************************)
\* a text field of the section's rows and the column of the child record
\* that holds it
KeyField(s) ==
    CASE s = "memberships" -> "body_name"
      [] s = "fdps" -> "program_name"
      [] s = "courses" -> "course_name"
      [] s = "student_support" -> "project_name"
      [] s = "industry" -> "activity_name"
      [] s \in {"pubs_jc", "books", "patents_models"} -> "title"
      [] s \in {"sponsored", "consultancy"} -> "pi_name"

KeyCol(s) ==
    IF s \in {"memberships", "student_support", "industry"} THEN 2 ELSE 3

\* a sequence without its i-th element
Without(seq, i) == SubSeq(seq, 1, i - 1) \o SubSeq(seq, i + 1, Len(seq))

\* C16: the Add button appends exactly one default row at the end of its
\* section's list and leaves the rows before it and every other list as
\* they were; the remove button of a row of a list with more than one row
\* deletes that row only and keeps the order of the others; and a submit
\* that succeeds has written the records of every section at "Yes" in the
\* order of its list.
C16_AddRemoveKeepOrder ==
    [][/\ \A s \in Sections :
             PressAdd(s) =>
                 /\ Len(lists'[s]) = Len(lists[s]) + 1
                 /\ SubSeq(lists'[s], 1, Len(lists[s])) = lists[s]
                 /\ lists'[s][Len(lists'[s])]
                        = FactoryOf(s, lists'[s][Len(lists'[s])]._id)
                 /\ \A k \in Sections \ {s} : lists'[k] = lists[k]
       /\ \A s \in Sections, i \in 1..MaxRows :
             (PressRemove(s, i) /\ Len(lists[s]) > 1) =>
                 /\ lists'[s] = Without(lists[s], i)
                 /\ \A k \in Sections \ {s} : lists'[k] = lists[k]
       /\ (SubmitRan /\ outcome'.kind = "success") =>
             \A s \in Sections :
                 has[s] = "Yes" =>
                     LET recs == RowsOf(sheets', SheetOf(s), outcome'.submission_id)
                     IN  /\ Len(recs) = Len(lists[s])
                         /\ \A i \in 1..Len(recs) :
                               recs[i][KeyCol(s)] = strip(lists[s][i][KeyField(s)])
      ]_vars

\* a submit succeeded with two different rows in one section, in list
\* order in the worksheet, and in another section the second row alone,
\* its first row having been removed
C16_Witness ==
    /\ outcome.kind = "success"
    /\ \E s \in Sections :
          /\ has[s] = "Yes"
          /\ Len(lists[s]) = 2
          /\ lists[s][1][KeyField(s)] # lists[s][2][KeyField(s)]
          /\ RowsOf(sheets, SheetOf(s), outcome.submission_id)[2][KeyCol(s)] = <<"b">>
    /\ \E s \in Sections :
          /\ has[s] = "Yes"
          /\ Len(lists[s]) = 1
          /\ Len(issued[s]) = 2
          /\ issued[s][2] = lists[s][1]._id
          /\ RowsOf(sheets, SheetOf(s), outcome.submission_id)[1][KeyCol(s)] = <<"b">>


(***************************************************************************)
(* C17                                                                     *)
(***************************************************************************)
\* the records of a submission the admin tab shows for section s
ReadBack(s, sid) ==
    SelectSeq(LoadTable(sheets, SheetOf(s)), LAMBDA r : r[1] = sid)

\* exactly one section is at "Yes" and it holds two rows
OneSectionTwoRows(s) ==
    /\ \A k \in Sections : has[k] = "Yes" <=> k = s
    /\ Len(lists[s]) = 2

\* C17: after a successful submit of one section at "Yes" with two rows,
\* the admin tab shows exactly two records with the reported submission id
\* for that section, and the text of every text field of record i is the
\* text entered in row i.
C17_RoundTrip ==
    \A s \in Sections :
        (outcome.kind = "success" /\ OneSectionTwoRows(s)) =>
            LET recs == ReadBack(s, outcome.submission_id)
            IN  /\ Len(recs) = 2
                /\ \A i \in 1..2 :
                      /\ recs[i][1] = outcome.submission_id
                      /\ \A c \in 1..Len(FieldCols(s)) :
                            FieldCols(s)[c] \in TextFields(s) =>
                                recs[i][c + 1] = lists[s][i][FieldCols(s)[c]]

\* two rows came back with the reported id, the text of a field without the
\* blanks typed around it
C17_Witness ==
    \E s \in Sections :
        /\ outcome.kind = "success"
        /\ OneSectionTwoRows(s)
        /\ Len(ReadBack(s, outcome.submission_id)) = 2
        /\ \A i \in 1..2 : ReadBack(s, outcome.submission_id)[i][1] = outcome.submission_id
        /\ lists[s][1][KeyField(s)] = <<" ", "a", " ">>
        /\ ReadBack(s, outcome.submission_id)[1][KeyCol(s)] = <<"a">>


(***************************************************************************)
(* C18                                                                     *)
(***************************************************************************)
\* the error shown for a confirmation that is not ticked
ConfirmMessage(s) ==
    CASE s = "pubs_jc" ->
            <<"Please confirm Journal/Conference publication PDFs matching.">>
      [] s = "sponsored" ->
            <<"Please confirm Sponsored project documents matching.">>
      [] s = "consultancy" ->
            <<"Please confirm Consultancy documents matching.">>

\* C18: for every value the three confirmation checkboxes may hold, the
\* validation reports a missing confirmation for a section exactly when
\* the section is at "Yes" and its checkbox is not ticked; a section at
\* "No" never gets one.  The errors a submit shows follow the same rule.
C18_ConfirmIffActive ==
    \A s \in ConfirmSections :
        /\ \A cf \in [ConfirmSections -> BOOLEAN] :
              ConfirmMessage(s) \in Range(Validate(name, has, lists, cf, stored))
                  <=> (has[s] = "Yes" /\ ~cf[s])
        /\ outcome.kind = "error" =>
              (ConfirmMessage(s) \in Range(outcome.errors)
                  <=> (has[s] = "Yes" /\ ~confirm[s]))
        /\ outcome.kind \in {"success", "exception"} =>
              (has[s] = "Yes" => confirm[s])

\* a submit was refused for the missing confirmation of the section at
\* "Yes" and for nothing else
C18_Witness ==
    /\ outcome.kind = "error"
    /\ \E s \in ConfirmSections :
          /\ has[s] = "Yes"
          /\ ~confirm[s]
          /\ outcome.errors = << ConfirmMessage(s) >>


(***************************************************************************)
(* C19                                                                     *)
(***************************************************************************)
\* the text_inputs of a section's row that the validation asks for
RequiredText(s) ==
    CASE s = "memberships" -> {"body_name", "membership_number", "grade_position"}
      [] s = "fdps" -> {"program_name", "date", "location", "organised_by"}
      [] s = "courses" -> {"date", "course_name", "offered_by", "grade"}
      [] s = "student_support" -> {"project_name", "event_date", "place"}
      [] s = "industry" ->
            {"activity_name", "company_place", "duration", "outcomes"}
      [] s = "pubs_jc" -> {"title", "doi"}
      [] s \in {"books", "patents_models"} -> {"title"}
      [] s \in {"sponsored", "consultancy"} ->
            {"pi_name", "dept_sanctioned", "project_title", "funding_agency",
             "duration"}

\* the uploader of a section's row that the validation asks for
RequiredSlot(s) ==
    CASE s = "pubs_jc" -> {"jc_pdf"}
      [] s = "sponsored" -> {"sp_san"}
      [] OTHER -> {}

\* the texts of the errors about a missing PDF
AttachmentTexts ==
    {": PDF upload is required.", ": Sanction/Approval PDF is required."}

\* row i of section s with its text_inputs holding v
RowWith(s, i, v) ==
    [f \in DOMAIN lists[s][i] |->
        IF f \in TextFields(s) THEN v[f] ELSE lists[s][i][f]]

\* how many of the errors are about an attachment / about the fields
AttachmentErrors(errs) ==
    Cardinality({j \in 1..Len(errs) :
                    Len(errs[j]) = 3 /\ errs[j][3] \in AttachmentTexts})
FieldErrors(errs) ==
    Cardinality({j \in 1..Len(errs) :
                    Len(errs[j]) = 3 /\ errs[j][3] \notin AttachmentTexts})

\* C19: for every row of a section at "Yes", whatever subset of its
\* text fields is blank, the validation appends for that row one error
\* about the fields when a required field is blank and none otherwise, and
\* one error about the attachment when the required PDF is missing and none
\* otherwise; every one of them carries the row's number.
C19_OneErrorPerRowAndGroup ==
    \A s \in Sections :
        (DOMAIN lists = Sections /\ has[s] = "Yes") =>
            \A i \in 1..Len(lists[s]) :
            \A v \in [TextFields(s) -> TextInputs] :
                LET errs == RowErrors(s, i, RowWith(s, i, v), stored)
                    blank == {f \in RequiredText(s) : Blank(v[f])}
                    missing == {sl \in RequiredSlot(s) :
                                   <<sl, lists[s][i]._id>> \notin DOMAIN stored}
                IN  /\ FieldErrors(errs) = IF blank # {} THEN 1 ELSE 0
                    /\ AttachmentErrors(errs) = IF missing # {} THEN 1 ELSE 0
                    /\ \A j \in 1..Len(errs) : errs[j][2] = i

\* a submit was refused with two errors for one row of two blank required
\* fields and a missing PDF: one for the fields, one for the PDF
C19_Witness ==
    /\ outcome.kind = "error"
    /\ \E s \in Sections :
          /\ has[s] = "Yes"
          /\ RequiredSlot(s) # {}
          /\ Len(lists[s]) = 1
          /\ Cardinality({f \in RequiredText(s) : Blank(lists[s][1][f])}) >= 2
          /\ Len(outcome.errors) = 2
          /\ FieldErrors(outcome.errors) = 1
          /\ AttachmentErrors(outcome.errors) = 1


(***************************************************************************)
(* C20                                                                     *)
(***************************************************************************)
\* worksheet t exists and its header row is not the one the app expects
Incompatible(sh, t) == Len(sh[t]) > 0 /\ sh[t][1] # SHEETS[t]

\* C20: a submit that gets past validation and finds a worksheet with a
\* header row other than the expected one fails (the claim: with a
\* SchemaError) instead of showing the success message, and leaves that
\* worksheet, header and records, as it was.
C20_SchemaErrorKeepsSheet ==
    [][\A t \in SheetTitles :
          (SubmitRan /\ outcome'.kind # "error" /\ Incompatible(sheets, t)) =>
              /\ outcome'.kind = "exception"
              /\ sheets'[t] = sheets[t]]_vars

\* the submit succeeded and the header row of the worksheet was replaced
\* over the old record
C20_Witness ==
    /\ outcome.kind = "success"
    /\ \E t \in SheetTitles :
          /\ Len(sheets[t]) >= 2
          /\ sheets[t][1] = SHEETS[t]
          /\ sheets[t][2][1] = 0
          /\ Len(sheets[t][2]) # Len(SHEETS[t])


(***************************************************************************)
(* C21                                                                     *)
(***************************************************************************)
\* the handler's record at the call of ensure_worksheet, on spreadsheet sh,
\* with no Google API call failing
AtEnsure(sh) ==
    [sheets |-> sh, drive |-> drive, calls |-> <<>>, budget |-> -1,
     exc |-> None, up |-> BlankUp, ups |-> <<>>, rows |-> <<>>,
     has_id |-> FALSE]

\* the rows of a worksheet under row 1
DataRows(sh, t) ==
    IF t \in DOMAIN sh /\ Len(sh[t]) > 1 THEN SubSeq(sh[t], 2, Len(sh[t])) ELSE <<>>

\* worksheet t is missing, blank, or carries the expected header row
MissingBlankOrExpected(sh, t) ==
    \/ t \notin DOMAIN sh
    \/ sh[t] = <<>>
    \/ sh[t][1] = SHEETS[t]

\* the calls of a log that write a header row or create a worksheet
HeaderWrites(log) ==
    {j \in 1..Len(log) : log[j].op \in {"add_worksheet", "append_row", "update"}}

\* the Google API calls one ensure_worksheet makes at most
EnsureCalls == 4

\* C21: on a worksheet that is missing, blank or already carries the
\* expected header, ensure_worksheet (no Google API call failing) leaves
\* the worksheet with the expected header in row 1 and the rows under it as
\* they were, touches no other worksheet and writes nothing when the header
\* was there; a second call right after it writes nothing and changes
\* nothing, and changes nothing either when one of its calls fails.  After
\* every successful submit every worksheet has its expected header row.
C21_EnsureWorksheetIdempotent ==
    /\ \A t \in SheetTitles :
          MissingBlankOrExpected(sheets, t) =>
              LET once == ensure_worksheet(AtEnsure(sheets), t, SHEETS[t])
                  twice == ensure_worksheet(AtEnsure(once.sheets), t, SHEETS[t])
              IN  /\ Running(once)
                  /\ t \in DOMAIN once.sheets
                  /\ Len(once.sheets[t]) >= 1
                  /\ once.sheets[t][1] = SHEETS[t]
                  /\ DataRows(once.sheets, t) = DataRows(sheets, t)
                  /\ \A k \in DOMAIN sheets \ {t} : once.sheets[k] = sheets[k]
                  /\ (t \in DOMAIN sheets /\ sheets[t] # <<>>) => once.calls = <<>>
                  /\ Cardinality(HeaderWrites(once.calls)) <= 2
                  /\ twice.sheets = once.sheets
                  /\ twice.calls = <<>>
                  /\ \A b \in 0..EnsureCalls :
                        ensure_worksheet([AtEnsure(once.sheets) EXCEPT !.budget = b],
                                         t, SHEETS[t]).sheets = once.sheets
    /\ outcome.kind = "success" =>
          \A t \in SheetTitles :
              /\ t \in DOMAIN sheets
              /\ Len(sheets[t]) >= 1
              /\ sheets[t][1] = SHEETS[t]

\* the second submit in a row succeeded: every worksheet has its header
\* row and the record of the earlier submission is still under it
C21_Witness ==
    /\ outcome.kind = "success"
    /\ outcome.submission_id = 2
    /\ \A t \in SheetTitles : t \in DOMAIN sheets /\ sheets[t][1] = SHEETS[t]
    /\ \E t \in SheetTitles \ {"faculty"} : DataRows(sheets, t) = <<EarlierRecord(t)>>


(***************************************************************************)
(* C22                                                                     *)
(***************************************************************************)
\* the keys of the uploaders of the rows of the lists
CacheKeys == UNION {SlotSet(s) \X RowIds(lists, s) : s \in Sections}

\* every stored PDF but the one of key is as it was
OthersKept(key) ==
    \A k \in (DOMAIN stored \cup DOMAIN stored') \ {key} :
        Get(stored', k) = Get(stored, k)

\* C22: putting a PDF into the uploader of a row and slot stores it under
\* that key in place of whatever was stored there and leaves the other
\* keys as they were; the stored PDF of a key is what was stored last and
\* stays when the widget is emptied or a row is added; after Clear nothing
\* is stored under the key, the other keys being kept.
C22_CacheContract ==
    [][\A s \in Sections, sl \in AllSlots, i \in 1..MaxRows :
          /\ \A f \in TwoFiles :
                Upload(s, sl, i, f) =>
                    /\ Get(stored', <<sl, lists[s][i]._id>>) = f
                    /\ OthersKept(<<sl, lists[s][i]._id>>)
          /\ WidgetRemove(s, sl, i) =>
                /\ stored' = stored
                /\ Get(stored', <<sl, lists[s][i]._id>>) # None
          /\ PressClear(s, sl, i) =>
                /\ Get(stored', <<sl, lists[s][i]._id>>) = None
                /\ OthersKept(<<sl, lists[s][i]._id>>)
          /\ PressAdd(s) => stored' = stored]_vars

\* one key holds the second PDF, stored over the first, while another key
\* keeps its PDF with its widget empty
C22_Witness ==
    \E key \in DOMAIN stored, other \in DOMAIN stored :
        /\ key # other
        /\ stored[key].name = "b.pdf"
        /\ Get(uploaded, key) = stored[key]
        /\ stored[other].name = "a.pdf"
        /\ other \notin DOMAIN uploaded


(***************************************************************************)
(* C23                                                                     *)
(***************************************************************************)
\* C23: pressing the remove button of the only row of a section changes
\* nothing: the row stays and so does every PDF stored for it.
C23_RemoveAtFloorIsNoOp ==
    [][\A s \in Sections, i \in 1..MaxRows :
          (PressRemove(s, i) /\ Len(lists[s]) = 1) =>
              /\ lists' = lists
              /\ stored' = stored
              /\ uploaded' = uploaded]_vars

\* the only row of a section has a PDF stored and its uploader widget is
\* empty: the state in which the remove button loses the PDF
C23_Witness ==
    /\ DOMAIN lists = Sections
    /\ \E s \in Sections :
          /\ has[s] = "Yes"
          /\ Len(lists[s]) = 1
          /\ \E sl \in RemovePops(s) :
                /\ <<sl, lists[s][1]._id>> \in DOMAIN stored
                /\ <<sl, lists[s][1]._id>> \notin DOMAIN uploaded

(***************************************************************************)
(* C24                                                                     *)
(***************************************************************************)
\* a cell of a record is the empty text
IsBlank(v) == ToString(v) = ToString("")

\* the files the step's submit created in the drive for slot sl
CreatedFor(sl) ==
    {k \in (Len(drive) + 1)..Len(drive') :
        drive'[k].name[2] = SlotUpload(sl).tag}

\* the rows of section s with a PDF stored for slot sl when Submit is pressed
CachedRows(s, sl) ==
    {i \in 1..Len(lists[s]) : <<sl, lists[s][i]._id>> \in DOMAIN stored'}

\* the reference columns of record rec for slot sl are those an upload of
\* file made by the step returned: the name, id and link of a created file
\* that holds the bytes of file
HoldsUploadOf(rec, sl, file) ==
    LET c == RefCol(sl)
    IN  \E k \in CreatedFor(sl) :
            /\ ~IsBlank(rec[c + 1])
            /\ rec[c + 1] = drive'[k].id
            /\ rec[c] = drive'[k].name
            /\ rec[c + 2] = <<"link", k>>
            /\ drive'[k].name = <<nextSid, SlotUpload(sl).tag, file.name>>
            /\ drive'[k].bytes = file.bytes

\* the records the step's submit wrote for section s, slot by slot
SlotsAsCached(s) ==
    LET recs == RowsOf(sheets', SheetOf(s), nextSid)
    IN  \A sl \in SlotSet(s) :
          /\ \A i \in 1..Len(recs) :
                LET file == Get(stored', <<sl, lists[s][i]._id>>)
                    c == RefCol(sl)
                IN  /\ sl \in RequiredSlot(s) =>
                            file # None /\ ~IsBlank(recs[i][c + 1])
                    /\ IsBlank(recs[i][c + 1]) <=> file = None
                    /\ IF file = None
                       THEN /\ IsBlank(recs[i][c])
                            /\ IsBlank(recs[i][c + 2])
                       ELSE HoldsUploadOf(recs[i], sl, file)
          /\ \A i, j \in 1..Len(recs) :
                (i # j /\ ~IsBlank(recs[i][RefCol(sl) + 1])
                       /\ ~IsBlank(recs[j][RefCol(sl) + 1])) =>
                    recs[i][RefCol(sl) + 1] # recs[j][RefCol(sl) + 1]
          /\ Len(recs) > 0 =>
                Cardinality(CreatedFor(sl)) = Cardinality(CachedRows(s, sl))

\* C24: in every child record a submit writes, the slot the validation
\* demands (publication PDF, sanction letter of a sponsored project) holds
\* the name, id and link of a file the submit uploaded with the bytes of the
\* PDF stored for that row, never the empty text; every other slot holds
\* such a reference if and only if a PDF was stored for the row and slot
\* when Submit was pressed, and three empty texts otherwise, with no file
\* created for it.
C24_SlotsHoldUploads ==
    [][SubmitRan => \A s \in UploadSections : SlotsAsCached(s)]_vars

\* the submit succeeded and wrote every row of a section in which one
\* uploader the validation does not ask for has a PDF and another has none
C24_Witness ==
    /\ outcome.kind = "success"
    /\ \E s \in UploadSections :
          LET recs == RowsOf(sheets, SheetOf(s), outcome.submission_id)
          IN  /\ Len(recs) = Len(lists[s])
              /\ Len(recs) >= 1
              /\ \E sl \in SlotSet(s) \ RequiredSlot(s) :
                    \E i \in 1..Len(recs) :
                        /\ <<sl, lists[s][i]._id>> \in DOMAIN stored
                        /\ ~IsBlank(recs[i][RefCol(sl) + 1])
              /\ \E sl \in SlotSet(s) \ RequiredSlot(s) :
                    \E i \in 1..Len(recs) :
                        /\ <<sl, lists[s][i]._id>> \notin DOMAIN stored
                        /\ IsBlank(recs[i][RefCol(sl) + 1])

====
